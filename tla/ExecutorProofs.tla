--------------------------- MODULE ExecutorProofs ---------------------------
(***************************************************************************)
(* Theorems about Executor, for every set of plans, every number of steps, *)
(* groups and workers.                                                     *)
(***************************************************************************)
EXTENDS Executor, TLAPS

\* The parts of a plan that the schedule is made of.
LEMMA PlanParts ==
    ASSUME Types
    PROVE  /\ plan.selected \subseteq Steps
           /\ plan.setup \subseteq Steps
           /\ plan.signs \subseteq Steps
           /\ plan.group \in [Steps -> Groups]
           /\ plan.produces \in [Steps -> Tokens \union {NoToken}]
BY Zenon DEF Types, Plans

\* Every step has a lane, and the steps of a lane are steps.
LEMMA LaneParts ==
    ASSUME Types
    PROVE  /\ \A k \in Steps : Lane(k) \in Lanes
           /\ \A l \in Lanes : StepsOf(l) \subseteq Steps
           /\ \A l \in Lanes : \A k \in StepsOf(l) : Lane(k) = l
BY PlanParts, Zenon DEF Lane, StepsOf, LaneOf, LaneSteps, Lanes

LEMMA NoStepIsNoStep == NoStep \notin Steps
BY PlanAssumption DEF NoStep, Steps

\* Recording a step keeps a context a context.
LEMMA RecordTypes ==
    ASSUME Types, NEW c \in Contexts, NEW k \in Steps, NEW e \in Entries, NEW b \in BOOLEAN
    PROVE  record_runtime_token_if_present(record_step(c, k, e), plan, k, b) \in Contexts
<1>1. record_step(c, k, e) \in Contexts
  BY Zenon DEF record_step, Contexts
<1>2. plan.produces[k] # NoToken => plan.produces[k] \in Tokens
  BY PlanParts, Zenon
<1> QED
  BY <1>1, <1>2, Zenon DEF record_runtime_token_if_present, Contexts

\* What the end of a step does to the variables it changes.
LEMMA FinishTypes ==
    ASSUME Types, NEW k \in Steps, NEW e \in Entries, NEW b \in BOOLEAN,
           NEW s \in Results, Finish(k, s, e, b)
    PROVE  /\ pc' \in [Steps -> StepStates]
           /\ result' \in [Steps -> Results]
           /\ context' \in [Lanes -> Contexts]
<1>1. Lane(k) \in Lanes /\ context[Lane(k)] \in Contexts
  BY LaneParts, Zenon DEF Types
<1>2. record_runtime_token_if_present(record_step(context[Lane(k)], k, e), plan, k, b) \in Contexts
  BY <1>1, RecordTypes, Zenon
<1>3. context' \in [Lanes -> Contexts]
  BY <1>1, <1>2, Zenon DEF Finish, Types
<1>4. pc' \in [Steps -> StepStates] /\ result' \in [Steps -> Results]
  BY Zenon DEF Finish, GoTo, Types, StepStates
<1> QED
  BY <1>3, <1>4, Zenon

LEMMA InitTypes == Init => Types
<1> SUFFICES ASSUME Init PROVE Types
  BY Zenon
<1>1. plan \in Plans
  BY ExecutorAssumption, Zenon DEF Init
<1>2. EmptyContext \in Contexts
  BY Zenon DEF EmptyContext, Contexts, Entries
<1> QED
  BY <1>1, <1>2, Zenon DEF Init, Types, LaneStates, StepStates, Results, NoStep, Ended

LEMMA NextTypes == TypeOK /\ [Next]_vars => Types'
<1> SUFFICES ASSUME Types, RepliesMatch, [Next]_vars PROVE Types'
  BY Zenon DEF TypeOK
<1> USE DEF Ended, GoTo
<1>0. "none" \in Entries /\ "skipped" \in Results /\ "failed" \in Results /\ "passed" \in Results
  BY Zenon DEF Entries, Results, Verdicts
<1>1. ASSUME NEW k \in Steps, Prepare(k) PROVE Types'
  <2>1. CASE FinishUnanswered(k, "skipped") \/ FinishUnanswered(k, "failed")
    <3>1. /\ pc' \in [Steps -> StepStates]
          /\ result' \in [Steps -> Results]
          /\ context' \in [Lanes -> Contexts]
      BY <1>0, <2>1, FinishTypes, Zenon DEF FinishUnanswered
    <3> QED
      BY <1>1, <2>1, <3>1, Zenon DEF Prepare, FinishUnanswered, Types
  <2>2. CASE /\ GoTo(k, IF k \in plan.signs THEN "signing" ELSE "sending")
             /\ UNCHANGED <<context, minted, result>>
    BY <1>1, <2>2, Zenon DEF Prepare, Types, StepStates, Busy
  <2> QED
    BY <1>1, <2>1, <2>2, Zenon DEF Prepare
<1>2. ASSUME NEW k \in Steps, LookForService(k) PROVE Types'
  <2>1. CASE FinishUnanswered(k, "failed")
    <3>1. /\ pc' \in [Steps -> StepStates]
          /\ result' \in [Steps -> Results]
          /\ context' \in [Lanes -> Contexts]
      BY <1>0, <2>1, FinishTypes, Zenon DEF FinishUnanswered
    <3> QED
      BY <1>2, <2>1, <3>1, Zenon DEF LookForService, FinishUnanswered, Types
  <2>2. CASE (GoTo(k, "sign_lock") \/ GoTo(k, "sending")) /\ UNCHANGED <<context, minted, result>>
    BY <1>2, <2>2, ZenonT(60) DEF LookForService, Types, StepStates, Busy
  <2> QED
    BY <1>2, <2>1, <2>2, Zenon DEF LookForService
<1>3. ASSUME NEW k \in Steps, LockService(k) PROVE Types'
  BY <1>3 DEF LockService, Types, StepStates, Busy
<1>4. ASSUME NEW k \in Steps, BuildService(k) PROVE Types'
  <2>1. CASE signing' = [signing EXCEPT !.lock = NoStep] /\ FinishUnanswered(k, "failed")
    <3>1. /\ pc' \in [Steps -> StepStates]
          /\ result' \in [Steps -> Results]
          /\ context' \in [Lanes -> Contexts]
      BY <1>0, <2>1, FinishTypes, Zenon DEF FinishUnanswered
    <3> QED
      BY <1>4, <2>1, <3>1, Zenon DEF BuildService, FinishUnanswered, Types
  <2>2. CASE /\ signing' = [signing EXCEPT !.service = TRUE]
             /\ GoTo(k, "publishing")
             /\ UNCHANGED <<context, minted, result>>
    BY <1>4, <2>2, Zenon DEF BuildService, Types, StepStates, Busy
  <2> QED
    BY <1>4, <2>1, <2>2, Zenon DEF BuildService
<1>5. ASSUME NEW k \in Steps, PublishService(k) PROVE Types'
  BY <1>5, Zenon DEF PublishService, Types, StepStates, Busy
<1>6. ASSUME NEW k \in Steps, Exchange(k) PROVE Types'
  <2>1. CASE FinishUnanswered(k, "failed") /\ (reply' = reply \/ reply' = [reply EXCEPT ![k] = "error"])
    <3>1. /\ pc' \in [Steps -> StepStates]
          /\ result' \in [Steps -> Results]
          /\ context' \in [Lanes -> Contexts]
      BY <1>0, <2>1, FinishTypes, Zenon DEF FinishUnanswered
    <3> QED
      BY <1>6, <2>1, <3>1, ZenonT(60) DEF Exchange, FinishUnanswered, Types
  <2>2. CASE /\ reply' = [reply EXCEPT ![k] = "full"]
             /\ Finish(k, "passed", "full", FALSE)
             /\ UNCHANGED minted
    <3>1. "full" \in Entries
      BY Zenon DEF Entries
    <3>2. /\ pc' \in [Steps -> StepStates]
          /\ result' \in [Steps -> Results]
          /\ context' \in [Lanes -> Contexts]
      BY <1>0, <2>2, <3>1, FinishTypes, Zenon
    <3> QED
      BY <1>6, <2>2, <3>2, Zenon DEF Exchange, Types
  <2>3. ASSUME NEW entry \in {"bare", "full"}, NEW b \in {FALSE, plan.produces[k] # NoToken},
               reply' = [reply EXCEPT ![k] = entry],
               minted' = IF b THEN minted \union {k} ELSE minted,
               \/ GoTo(k, "verifying") /\ UNCHANGED <<context, result>>
               \/ \E status \in Verdicts : Finish(k, status, entry, b)
        PROVE Types'
    <3>1. entry \in Entries /\ b \in BOOLEAN
      BY <2>3, Zenon DEF Entries
    <3>2. /\ pc' \in [Steps -> StepStates]
          /\ result' \in [Steps -> Results]
          /\ context' \in [Lanes -> Contexts]
      <4>1. CASE GoTo(k, "verifying") /\ UNCHANGED <<context, result>>
        BY <4>1, Zenon DEF Types, StepStates, Busy
      <4>2. ASSUME NEW status \in Verdicts, Finish(k, status, entry, b)
            PROVE  /\ pc' \in [Steps -> StepStates]
                   /\ result' \in [Steps -> Results]
                   /\ context' \in [Lanes -> Contexts]
        <5>1. status \in Results
          BY Zenon DEF Results
        <5> QED
          BY <3>1, <4>2, <5>1, FinishTypes, Zenon
      <4> QED
        BY <2>3, <4>1, <4>2, Zenon
    <3> QED
      BY <1>6, <2>3, <3>2, ZenonT(60) DEF Exchange, Types
  <2> QED
    BY <1>6, <2>1, <2>2, <2>3, Zenon DEF Exchange
<1>7. ASSUME NEW k \in Steps, FinishAnswered(k, "failed") \/ (\E status \in Verdicts : FinishAnswered(k, status)),
             reply[k] \in {"bare", "full"}
      PROVE  /\ pc' \in [Steps -> StepStates]
             /\ result' \in [Steps -> Results]
             /\ context' \in [Lanes -> Contexts]
             /\ reply' = reply /\ minted' = minted
  <2>1. PICK status \in Verdicts : FinishAnswered(k, status)
    BY <1>7, Zenon DEF Verdicts
  <2>2. status \in Results /\ reply[k] \in Entries /\ (k \in minted) \in BOOLEAN
    BY <1>7 DEF Results, Entries
  <2>3. Finish(k, status, reply[k], k \in minted)
    BY <2>1, Zenon DEF FinishAnswered
  <2>4. /\ pc' \in [Steps -> StepStates]
        /\ result' \in [Steps -> Results]
        /\ context' \in [Lanes -> Contexts]
    BY <2>2, <2>3, FinishTypes, Zenon
  <2> QED
    BY <2>1, <2>4, Zenon DEF FinishAnswered
<1>8. ASSUME NEW k \in Steps, LookForKeys(k) PROVE Types'
  <2>1. CASE FinishAnswered(k, "failed")
    <3>1. reply[k] \in {"bare", "full"}
      BY <1>8, Zenon DEF LookForKeys, RepliesMatch, Answered
    <3>2. /\ pc' \in [Steps -> StepStates]
          /\ result' \in [Steps -> Results]
          /\ context' \in [Lanes -> Contexts]
          /\ reply' = reply /\ minted' = minted
      BY <1>7, <2>1, <3>1, Zenon
    <3> QED
      BY <1>8, <3>2, Zenon DEF LookForKeys, Types
  <2>2. CASE /\ GoTo(k, IF jwks.keys THEN "judging" ELSE "jwks_lock")
             /\ UNCHANGED <<context, reply, minted, result>>
    BY <1>8, <2>2, Zenon DEF LookForKeys, Types, StepStates, Busy
  <2> QED
    BY <1>8, <2>1, <2>2, Zenon DEF LookForKeys
<1>9. ASSUME NEW k \in Steps, LockKeys(k) PROVE Types'
  BY <1>9, ZenonT(60) DEF LockKeys, Types, StepStates, Busy
<1>10. ASSUME NEW k \in Steps, FetchKeys(k) PROVE Types'
  <2>1. CASE jwks' = [jwks EXCEPT !.lock = NoStep] /\ FinishAnswered(k, "failed")
    <3>1. reply[k] \in {"bare", "full"}
      BY <1>10, Zenon DEF FetchKeys, RepliesMatch, Answered
    <3>2. /\ pc' \in [Steps -> StepStates]
          /\ result' \in [Steps -> Results]
          /\ context' \in [Lanes -> Contexts]
          /\ reply' = reply /\ minted' = minted
      BY <1>7, <2>1, <3>1, Zenon
    <3> QED
      BY <1>10, <2>1, <3>2, Zenon DEF FetchKeys, Types
  <2>2. CASE /\ jwks' = [keys |-> TRUE, lock |-> NoStep]
             /\ GoTo(k, "judging")
             /\ UNCHANGED <<context, reply, minted, result>>
    BY <1>10, <2>2, Zenon DEF FetchKeys, Types, StepStates, Busy
  <2> QED
    BY <1>10, <2>1, <2>2, Zenon DEF FetchKeys
<1>11. ASSUME NEW k \in Steps, Judge(k) PROVE Types'
  <2>1. reply[k] \in {"bare", "full"}
    BY <1>11, Zenon DEF Judge, RepliesMatch, Answered
  <2>2. /\ pc' \in [Steps -> StepStates]
        /\ result' \in [Steps -> Results]
        /\ context' \in [Lanes -> Contexts]
        /\ reply' = reply /\ minted' = minted
    BY <1>7, <1>11, <2>1, Zenon DEF Judge
  <2> QED
    BY <1>11, <2>2, Zenon DEF Judge, Types
<1>12. ASSUME NEW k \in Steps, StepRaises(k) PROVE Types'
  BY <1>12, Zenon DEF StepRaises, Release, Types, StepStates, LaneStates
<1>13. ASSUME NEW g \in Groups, StartGroup(g) \/ GroupEnds(g) PROVE Types'
  BY <1>13, ZenonT(60) DEF StartGroup, GroupEnds, stepVars, Types, LaneStates
<1>14. ASSUME SubmitGroups PROVE Types'
  <2>1. Setup \in Lanes
    BY Zenon DEF Lanes
  <2> QED
    BY <1>14, <2>1, Zenon DEF SubmitGroups, Types, LaneStates
<1>15. ASSUME Join PROVE Types'
  BY <1>15, Zenon DEF Join, stepVars, Types
<1>16. ASSUME UNCHANGED vars PROVE Types'
  BY <1>16, Zenon DEF vars, stepVars, Types
<1> QED
  BY <1>1, <1>2, <1>3, <1>4, <1>5, <1>6, <1>8, <1>9, <1>10, <1>11, <1>12, <1>13, <1>14, <1>15, <1>16, Zenon
     DEF Next, StepProgress, GroupProgress, Rest

LEMMA NextReplies == TypeOK /\ [Next]_vars => RepliesMatch'
<1> SUFFICES ASSUME Types, RepliesMatch, [Next]_vars PROVE RepliesMatch'
  BY Zenon DEF TypeOK
<1> USE DEF GoTo, RepliesMatch, Answered, Unanswered
<1>1. ASSUME NEW k \in Steps, Prepare(k) \/ LookForService(k) \/ BuildService(k) PROVE RepliesMatch'
  <2>1. reply' = reply /\ reply[k] = "unsent"
    BY <1>1, Zenon DEF Prepare, NextOfLane, LookForService, BuildService
  <2>2. PICK x \in Unanswered \union {"done"} : pc' = [pc EXCEPT ![k] = x]
    BY <1>1, Zenon DEF Prepare, LookForService, BuildService, FinishUnanswered, Finish
  <2> QED
    BY <2>1, <2>2, Zenon DEF Types
<1>2. ASSUME NEW k \in Steps, LockService(k) \/ PublishService(k) PROVE RepliesMatch'
  BY <1>2, ZenonT(60) DEF LockService, PublishService, Types
<1>3. ASSUME NEW k \in Steps, Exchange(k) PROVE RepliesMatch'
  <2>1. CASE pc' = [pc EXCEPT ![k] = "done"] /\ (\E v \in {"unsent", "error", "bare", "full"} : reply' = [reply EXCEPT ![k] = v])
    BY <2>1, Zenon DEF Types
  <2>2. CASE pc' = [pc EXCEPT ![k] = "verifying"] /\ (\E v \in {"bare", "full"} : reply' = [reply EXCEPT ![k] = v])
    BY <2>2, Zenon DEF Types
  <2>3. reply = [reply EXCEPT ![k] = "unsent"]
    BY <1>3, Zenon DEF Exchange, Types
  <2> QED
    BY <1>3, <2>1, <2>2, <2>3, Zenon DEF Exchange, FinishUnanswered, Finish
<1>4. ASSUME NEW k \in Steps, LookForKeys(k) \/ LockKeys(k) \/ FetchKeys(k) \/ Judge(k) PROVE RepliesMatch'
  <2>1. reply' = reply /\ reply[k] \in {"bare", "full"}
    BY <1>4, Zenon DEF LookForKeys, LockKeys, FetchKeys, Judge, FinishAnswered
  <2>2. PICK x \in Answered \union {"done"} : pc' = [pc EXCEPT ![k] = x]
    BY <1>4, Zenon DEF LookForKeys, LockKeys, FetchKeys, Judge, FinishAnswered, Finish
  <2> QED
    BY <2>1, <2>2, Zenon DEF Types
<1>5. ASSUME NEW k \in Steps, StepRaises(k) PROVE RepliesMatch'
  BY <1>5, Zenon DEF StepRaises, Types
<1>6. ASSUME NEW g \in Groups, StartGroup(g) \/ GroupEnds(g) PROVE RepliesMatch'
  BY <1>6, Zenon DEF StartGroup, GroupEnds, stepVars
<1>7. ASSUME SubmitGroups \/ Join \/ UNCHANGED vars PROVE RepliesMatch'
  BY <1>7, Zenon DEF SubmitGroups, Join, vars, stepVars
<1> QED
  BY <1>1, <1>2, <1>3, <1>4, <1>5, <1>6, <1>7, Zenon DEF Next, StepProgress, GroupProgress, Rest

\* Every reachable state is well typed, for any plans, groups and workers.
THEOREM ExecutorTypeCorrect == Spec => []TypeOK
<1>1. Init => TypeOK
  <2>1. Init => RepliesMatch
    BY Zenon DEF Init, RepliesMatch, Answered
  <2> QED
    BY <2>1, InitTypes, Zenon DEF TypeOK
<1>2. TypeOK /\ [Next]_vars => TypeOK'
  BY NextTypes, NextReplies, Zenon DEF TypeOK
<1> QED
  BY <1>1, <1>2, PTL DEF Spec

-----------------------------------------------------------------------------
(* The caches: the lock is held by the one step that fills the cache, and  *)
(* the flag is only off while the service is there if that step is about   *)
(* to set it.                                                              *)

CacheInv ==
    /\ \A k \in Steps : signing.lock = k <=> pc[k] \in {"building", "publishing"}
    /\ \A k \in Steps : pc[k] = "building" => ~signing.service
    /\ \A k \in Steps : pc[k] = "publishing" => signing.service
    /\ signing.loaded => signing.service
    /\ signing.service /\ ~signing.loaded => signing.lock # NoStep
    /\ \A k \in plan.signs : pc[k] = "sending" => signing.service
    /\ \A k \in Steps : jwks.lock = k <=> pc[k] = "fetching"
    /\ \A k \in Steps : pc[k] = "fetching" => ~jwks.keys

LEMMA NextCache == TypeOK /\ CacheInv /\ [Next]_vars => CacheInv'
<1> SUFFICES ASSUME Types, CacheInv, [Next]_vars PROVE CacheInv'
  BY Zenon DEF TypeOK
<1> USE NoStepIsNoStep DEF GoTo
<1>0. plan.signs \subseteq Steps
  BY PlanParts, Zenon
<1>1. ASSUME NEW k \in Steps, Prepare(k) PROVE CacheInv'
  <2>1. plan' = plan /\ signing' = signing /\ jwks' = jwks /\ pc[k] = "waiting"
    BY <1>1, Zenon DEF Prepare, NextOfLane
  <2>2. PICK x \in {"done", "signing", "sending"} : pc' = [pc EXCEPT ![k] = x] /\ (k \in plan.signs => x # "sending")
    BY <1>1, Zenon DEF Prepare, FinishUnanswered, Finish
  <2> QED
    BY <1>0, <2>1, <2>2, SMTT(60) DEF CacheInv, Types
<1>2. ASSUME NEW k \in Steps, LookForService(k) PROVE CacheInv'
  <2>1. plan' = plan /\ signing' = signing /\ jwks' = jwks /\ pc[k] = "signing"
    BY <1>2, Zenon DEF LookForService
  <2>2. PICK x \in {"done", "sign_lock", "sending"} : pc' = [pc EXCEPT ![k] = x] /\ (x = "sending" => signing.service)
    BY <1>2, Zenon DEF LookForService, FinishUnanswered, Finish
  <2> QED
    BY <1>0, <2>1, <2>2 DEF CacheInv, Types
<1>3. ASSUME NEW k \in Steps, LockService(k) PROVE CacheInv'
  BY <1>0, <1>3 DEF LockService, CacheInv, Types
<1>4. ASSUME NEW k \in Steps, BuildService(k) PROVE CacheInv'
  <2>1. plan' = plan /\ jwks' = jwks /\ pc[k] = "building"
    BY <1>4, Zenon DEF BuildService
  <2>2. \/ signing' = [signing EXCEPT !.service = TRUE] /\ pc' = [pc EXCEPT ![k] = "publishing"]
        \/ signing' = [signing EXCEPT !.lock = NoStep] /\ pc' = [pc EXCEPT ![k] = "done"]
    BY <1>4, Zenon DEF BuildService, FinishUnanswered, Finish
  <2> QED
    BY <1>0, <2>1, <2>2 DEF CacheInv, Types
<1>5. ASSUME NEW k \in Steps, PublishService(k) PROVE CacheInv'
  BY <1>0, <1>5 DEF PublishService, CacheInv, Types
<1>6. ASSUME NEW k \in Steps, Exchange(k) \/ LookForKeys(k) \/ Judge(k) PROVE CacheInv'
  <2>1. plan' = plan /\ signing' = signing /\ jwks' = jwks /\ pc[k] \in {"sending", "verifying", "judging"}
    BY <1>6, Zenon DEF Exchange, LookForKeys, Judge
  <2>2. PICK x \in {"done", "verifying", "judging", "jwks_lock"} : pc' = [pc EXCEPT ![k] = x]
    BY <1>6, Zenon DEF Exchange, LookForKeys, Judge, FinishUnanswered, FinishAnswered, Finish
  <2> QED
    BY <1>0, <2>1, <2>2 DEF CacheInv, Types
<1>7. ASSUME NEW k \in Steps, LockKeys(k) PROVE CacheInv'
  BY <1>0, <1>7 DEF LockKeys, CacheInv, Types
<1>8. ASSUME NEW k \in Steps, FetchKeys(k) PROVE CacheInv'
  <2>1. plan' = plan /\ signing' = signing /\ pc[k] = "fetching"
    BY <1>8, Zenon DEF FetchKeys
  <2>2. \/ jwks' = [keys |-> TRUE, lock |-> NoStep] /\ pc' = [pc EXCEPT ![k] = "judging"]
        \/ jwks' = [jwks EXCEPT !.lock = NoStep] /\ pc' = [pc EXCEPT ![k] = "done"]
    BY <1>8, Zenon DEF FetchKeys, FinishAnswered, Finish
  <2> QED
    BY <1>0, <2>1, <2>2 DEF CacheInv, Types
<1>9. ASSUME NEW k \in Steps, StepRaises(k) PROVE CacheInv'
  <2>1. plan' = plan /\ pc' = [pc EXCEPT ![k] = "raised"] /\ pc[k] # "publishing"
    BY <1>9, Zenon DEF StepRaises, NextOfLane
  <2>2. signing' = Release(signing, k) /\ jwks' = Release(jwks, k)
    BY <1>9, Zenon DEF StepRaises
  <2> QED
    BY <1>0, <2>1, <2>2 DEF Release, CacheInv, Types
<1>10. ASSUME NEW g \in Groups, StartGroup(g) \/ GroupEnds(g) PROVE CacheInv'
  BY <1>10, ZenonT(60) DEF StartGroup, GroupEnds, stepVars, CacheInv
<1>11. ASSUME SubmitGroups \/ Join \/ UNCHANGED vars PROVE CacheInv'
  BY <1>11, ZenonT(60) DEF SubmitGroups, Join, vars, stepVars, CacheInv
<1> QED
  BY <1>1, <1>2, <1>3, <1>4, <1>5, <1>6, <1>7, <1>8, <1>9, <1>10, <1>11, Zenon
     DEF Next, StepProgress, GroupProgress, Rest

LEMMA CacheInvariant == Spec => [](TypeOK /\ CacheInv)
<1>1. Init => CacheInv
  BY NoStepIsNoStep, PlanParts, InitTypes DEF Init, CacheInv
<1> QED
  BY <1>1, NextCache, ExecutorTypeCorrect, PTL DEF Spec

\* The signing service is built by one step at a time, and not again once it
\* is there (_LazyFapiSigningService.get), for any number of groups.
THEOREM ServiceBuiltOnce == Spec => []ServiceIsBuiltOnce
<1>1. TypeOK /\ CacheInv => ServiceIsBuiltOnce
  BY ZenonT(60) DEF CacheInv, ServiceIsBuiltOnce
<1> QED
  BY <1>1, CacheInvariant, PTL

\* A reader without the lock never finds half of the signing service.
THEOREM ServiceSeenWhole == Spec => []ServiceIsSeenWhole
<1>1. TypeOK /\ CacheInv => ServiceIsSeenWhole
  BY Zenon DEF CacheInv, ServiceIsSeenWhole
<1> QED
  BY <1>1, CacheInvariant, PTL

\* The JWKS is fetched by one step at a time, and not again after a success
\* (_ResponseSignatureJwksCache.get).
THEOREM KeysFetchedOnce == Spec => []KeysAreFetchedOnce
<1>1. TypeOK /\ CacheInv => KeysAreFetchedOnce
  BY Zenon DEF CacheInv, KeysAreFetchedOnce
<1> QED
  BY <1>1, CacheInvariant, PTL

-----------------------------------------------------------------------------
(* The lanes: a step is under way only in a running lane, after all steps  *)
(* of the lane before it, and a group leaves its first state only after    *)
(* setup is done.                                                          *)

LaneInv ==
    /\ \A k \in Steps : pc[k] \in Busy => lane[Lane(k)] = "running"
    /\ \A k \in Steps : pc[k] # "waiting" =>
          /\ k \in plan.selected
          /\ lane[Lane(k)] # "idle"
          /\ \A j \in StepsOf(Lane(k)) : j < k => pc[j] = "done"
    /\ stage = "setup" <=> lane[Setup] = "running"
    /\ stage = "groups" => lane[Setup] = "done"
    /\ lane[Setup] # "queued"
    /\ lane[Setup] = "done" => \A k \in StepsOf(Setup) : pc[k] = "done"
    /\ \A g \in Groups : lane[g] # "idle" => lane[Setup] = "done" /\ g \in GroupIds(plan)
    /\ stage \in Ended => \A l \in Lanes : lane[l] \notin {"queued", "running"}

\* A step that gets ahead changes its own control state only, and was either
\* under way or the next of its lane.
LEMMA StepMoves ==
    ASSUME Types, NEW k \in Steps, StepProgress(k)
    PROVE  /\ \E x \in Busy \union {"done"} : pc' = [pc EXCEPT ![k] = x]
           /\ NextOfLane(k) \/ pc[k] \in Busy
           /\ plan' = plan /\ stage' = stage /\ lane' = lane
<1> USE DEF GoTo, Finish, FinishUnanswered, FinishAnswered, Busy
<1>1. CASE Prepare(k) \/ LookForService(k) \/ BuildService(k)
  BY <1>1, Zenon DEF Prepare, LookForService, BuildService
<1>2. CASE LockService(k) \/ PublishService(k) \/ LockKeys(k) \/ Judge(k)
  BY <1>2, Zenon DEF LockService, PublishService, LockKeys, Judge
<1>3. CASE Exchange(k) \/ LookForKeys(k) \/ FetchKeys(k)
  BY <1>3, Zenon DEF Exchange, LookForKeys, FetchKeys
<1> QED
  BY <1>1, <1>2, <1>3, Zenon DEF StepProgress

LEMMA NextLane == TypeOK /\ LaneInv /\ [Next]_vars => LaneInv'
<1> SUFFICES ASSUME Types, LaneInv, [Next]_vars PROVE LaneInv'
  BY Zenon DEF TypeOK
<1>0. /\ \A k \in Steps : Lane(k) \in Lanes
      /\ \A l \in Lanes : StepsOf(l) \subseteq Steps
      /\ \A l \in Lanes : \A k \in StepsOf(l) : Lane(k) = l
      /\ \A k \in Steps : k \in plan.selected => k \in StepsOf(Lane(k))
      /\ Setup \in Lanes /\ Setup \notin Groups /\ Groups \subseteq Lanes
  BY LaneParts, PlanAssumption, Zenon DEF Lanes, Lane, StepsOf, LaneSteps
<1>00. "waiting" \notin Busy /\ "done" \notin Busy /\ "raised" \notin Busy
  BY Zenon DEF Busy
<1>1. ASSUME plan' = plan
      PROVE /\ \A k \in Steps : Lane(k)' = Lane(k)
            /\ \A l \in Lanes : StepsOf(l)' = StepsOf(l)
            /\ GroupIds(plan)' = GroupIds(plan)
  BY <1>1, Zenon DEF Lane, StepsOf
<1>2. \A j, k \in Steps : j \in Int /\ k \in Int
  BY PlanAssumption, SMTT(60) DEF Steps
<1>3. ASSUME NEW k \in Steps, StepProgress(k) PROVE LaneInv'
  <2>1. PICK x \in Busy \union {"done"} : pc' = [pc EXCEPT ![k] = x]
    BY <1>3, StepMoves, Zenon
  <2>2. plan' = plan /\ stage' = stage /\ lane' = lane /\ (NextOfLane(k) \/ pc[k] \in Busy)
    BY <1>3, StepMoves, Zenon
  <2>3. /\ lane[Lane(k)] = "running"
        /\ k \in plan.selected
        /\ pc[k] # "done"
        /\ \A j \in StepsOf(Lane(k)) : j < k => pc[j] = "done"
    BY <1>0, <1>00, <2>2, Zenon DEF NextOfLane, LaneInv, StepsOf, LaneSteps
  <2>4. \A j \in Steps : pc'[j] = IF j = k THEN x ELSE pc[j]
    BY <2>1, Zenon DEF Types
  <2>5. \A i \in Steps : pc'[i] # "waiting" => \A j \in StepsOf(Lane(i)) : j < i => pc'[j] = "done"
    BY <1>0, <2>3, <2>4, <1>2, ZenonT(60) DEF LaneInv
  <2> QED
    BY <1>0, <1>00, <1>1, <2>2, <2>3, <2>4, <2>5, SMTT(60) DEF LaneInv
<1>4. ASSUME NEW k \in Steps, StepRaises(k) PROVE LaneInv'
  <2>1. /\ plan' = plan
        /\ pc' = [pc EXCEPT ![k] = "raised"]
        /\ lane' = [lane EXCEPT ![Lane(k)] = "raised"]
        /\ stage' = IF Lane(k) = Setup THEN "raised" ELSE stage
    BY <1>4, Zenon DEF StepRaises, GoTo
  <2>2. /\ lane[Lane(k)] = "running"
        /\ k \in plan.selected
        /\ pc[k] # "done"
        /\ \A j \in StepsOf(Lane(k)) : j < k => pc[j] = "done"
    BY <1>0, <1>4, Zenon DEF StepRaises, NextOfLane, LaneInv, Busy, StepsOf, LaneSteps
  <2>3. \A j \in Steps : pc'[j] = IF j = k THEN "raised" ELSE pc[j]
    BY <2>1, Zenon DEF Types
  <2>4. \A l \in Lanes : lane'[l] = IF l = Lane(k) THEN "raised" ELSE lane[l]
    BY <2>1, Zenon DEF Types
  <2>5. \A j \in Steps : pc[j] \in Busy /\ Lane(j) = Lane(k) => j = k
    BY <1>0, <1>00, <1>2, <2>2, SMTT(60) DEF LaneInv
  <2>6. \A i \in Steps : pc'[i] # "waiting" => \A j \in StepsOf(Lane(i)) : j < i => pc'[j] = "done"
    BY <1>0, <2>2, <2>3, <1>2, ZenonT(60) DEF LaneInv
  <2>7. Lane(k) # Setup => stage = "groups"
    <3>1. stage \in {"setup", "groups"} \union Ended
      BY Zenon DEF Types
    <3>2. stage \notin Ended
      BY <1>0, <2>2, Zenon DEF LaneInv
    <3>3. Lane(k) # Setup => Lane(k) \in Groups
      BY <1>0, Zenon DEF Lanes
    <3> QED
      BY <2>2, <3>1, <3>2, <3>3, Zenon DEF LaneInv
  <2>8. /\ \A j \in Steps : pc'[j] \in Busy => lane'[Lane(j)] = "running"
        /\ \A j \in Steps : pc'[j] # "waiting" => j \in plan.selected /\ lane'[Lane(j)] # "idle"
    BY <1>0, <1>00, <2>2, <2>3, <2>4, <2>5, SMTT(60) DEF LaneInv
  <2>9. CASE Lane(k) = Setup
    <3>1. \A g \in Groups : lane[g] = "idle"
      BY <1>0, <2>2, <2>9, Zenon DEF LaneInv
    <3>2. /\ stage' = "raised"
          /\ lane'[Setup] = "raised"
          /\ \A g \in Groups : lane'[g] = "idle"
      BY <1>0, <2>1, <2>4, <2>9, <3>1, Zenon
    <3>3. \A l \in Lanes : lane'[l] \notin {"queued", "running"}
      BY <3>2, Zenon DEF Lanes
    <3> QED
      BY <1>0, <1>1, <2>1, <2>6, <2>8, <3>2, <3>3, SMTT(60) DEF LaneInv
  <2>10. CASE Lane(k) # Setup
    <3>1. stage' = "groups" /\ lane'[Setup] = "done" /\ lane[Setup] = "done"
      BY <1>0, <2>1, <2>4, <2>7, <2>10, Zenon DEF LaneInv
    <3>2. \A j \in StepsOf(Setup) : pc'[j] = "done"
      BY <1>0, <2>3, <2>10, <3>1, Zenon DEF LaneInv
    <3>3. \A g \in Groups : lane'[g] # "idle" => g \in GroupIds(plan)
      BY <1>0, <2>2, <2>4, Zenon DEF LaneInv
    <3> QED
      BY <1>0, <1>1, <2>1, <2>6, <2>8, <3>1, <3>2, <3>3, SMTT(60) DEF LaneInv, Ended
  <2> QED
    BY <2>9, <2>10, Zenon
<1>5. ASSUME NEW g \in Groups, StartGroup(g) \/ GroupEnds(g) PROVE LaneInv'
  <2>1. plan' = plan /\ stage' = stage /\ pc' = pc
    BY <1>5, Zenon DEF StartGroup, GroupEnds, stepVars
  <2>2. PICK x \in {"running", "done"} : lane' = [lane EXCEPT ![g] = x]
    BY <1>5, Zenon DEF StartGroup, GroupEnds
  <2>3. /\ lane[g] \in {"queued", "running"}
        /\ x = "done" => \A k \in StepsOf(g) : pc[k] = "done"
    BY <1>0, <1>5, <2>2, Zenon DEF StartGroup, GroupEnds, LaneIsThrough, Types
  <2>4. \A l \in Lanes : lane'[l] = IF l = g THEN x ELSE lane[l]
    BY <2>2, Zenon DEF Types
  <2> QED
    BY <1>0, <1>00, <1>1, <2>1, <2>3, <2>4, SMTT(60) DEF LaneInv
<1>6. ASSUME SubmitGroups PROVE LaneInv'
  <2>1. /\ plan' = plan /\ stage' = "groups" /\ pc' = pc
        /\ lane[Setup] = "running"
        /\ \A k \in StepsOf(Setup) : pc[k] = "done"
    BY <1>6, Zenon DEF SubmitGroups, LaneIsThrough
  <2>2. \A l \in Lanes :
           lane'[l] = IF l = Setup THEN "done" ELSE IF l \in GroupIds(plan) THEN "queued" ELSE "idle"
    BY <1>6, Zenon DEF SubmitGroups
  <2>3. \A k \in Steps : pc[k] # "waiting" => Lane(k) = Setup /\ pc[k] = "done"
    BY <1>0, <2>1, Zenon DEF LaneInv, Lanes
  <2> QED
    BY <1>0, <1>00, <1>1, <2>1, <2>2, <2>3, SMTT(60) DEF LaneInv, Ended
<1>7. ASSUME Join PROVE LaneInv'
  <2>1. plan' = plan /\ lane' = lane /\ pc' = pc /\ stage' \in Ended /\ stage = "groups" /\ GroupsAreOver
    BY <1>7, Zenon DEF Join, stepVars, Ended
  <2>2. \A l \in Lanes : lane[l] \notin {"queued", "running"}
    BY <2>1, Zenon DEF LaneInv, GroupsAreOver, Lanes
  <2> QED
    BY <1>0, <1>1, <2>1, <2>2 DEF LaneInv, Ended
<1>8. ASSUME UNCHANGED vars PROVE LaneInv'
  BY <1>0, <1>1, <1>8 DEF vars, stepVars, LaneInv
<1> QED
  BY <1>3, <1>4, <1>5, <1>6, <1>7, <1>8, Zenon DEF Next, GroupProgress, Rest


LEMMA LaneInvariant == Spec => []LaneInv
<1>1. Init => LaneInv
  <2> SUFFICES ASSUME Init PROVE LaneInv
    BY Zenon
  <2>1. Setup \in Lanes /\ Setup \notin Groups /\ Groups \subseteq Lanes
    BY PlanAssumption, Zenon DEF Lanes
  <2>2. /\ \A k \in Steps : pc[k] = "waiting"
        /\ stage = "setup" /\ lane[Setup] = "running"
        /\ \A g \in Groups : lane[g] = "idle"
    BY <2>1, Zenon DEF Init
  <2> QED
    BY <2>1, <2>2, Zenon DEF LaneInv, Busy, Ended
<1> QED
  BY <1>1, NextLane, ExecutorTypeCorrect, PTL DEF Spec

\* No execution step starts before every selected setup step has its result:
\* _run_manifest_v1 hands the groups to the pool after its loop over setup.
THEOREM SetupFirst == Spec => []SetupComesFirst
<1>1. TypeOK /\ LaneInv => SetupComesFirst
  <2> SUFFICES ASSUME Types, LaneInv, NEW k \in Steps, Lane(k) # Setup, pc[k] # "waiting"
               PROVE  \A j \in StepsOf(Setup) : pc[j] = "done"
    BY Zenon DEF SetupComesFirst, TypeOK
  <2>1. Lane(k) \in Groups /\ lane[Lane(k)] # "idle"
    BY LaneParts, Zenon DEF LaneInv, Lanes
  <2> QED
    BY <2>1, Zenon DEF LaneInv
<1> QED
  BY <1>1, LaneInvariant, ExecutorTypeCorrect, PTL

\* When run_manifest has returned or raised, no step is under way, no group is
\* still to start and no lock is held, whatever raised and wherever: the pool
\* is left only when all of its futures are through.
THEOREM NothingAfterTheEnd == Spec => []NothingRunsAfterTheEnd
<1>1. TypeOK /\ LaneInv /\ CacheInv => NothingRunsAfterTheEnd
  <2> SUFFICES ASSUME Types, LaneInv, CacheInv, stage \in Ended
               PROVE  /\ \A k \in Steps : pc[k] \notin Busy
                      /\ \A l \in Lanes : lane[l] \notin {"queued", "running"}
                      /\ signing.lock = NoStep /\ jwks.lock = NoStep
    BY Zenon DEF NothingRunsAfterTheEnd, TypeOK
  <2>1. \A l \in Lanes : lane[l] \notin {"queued", "running"}
    BY Zenon DEF LaneInv
  <2>2. \A k \in Steps : pc[k] \notin Busy
    BY <2>1, LaneParts, Zenon DEF LaneInv
  <2>3. signing.lock = NoStep /\ jwks.lock = NoStep
    BY <2>2, ZenonT(60) DEF CacheInv, Busy, Types
  <2> QED
    BY <2>1, <2>2, <2>3, Zenon
<1> QED
  BY <1>1, LaneInvariant, CacheInvariant, ExecutorTypeCorrect, PTL

-----------------------------------------------------------------------------
(* Isolation of the groups.                                                *)

\* Recording a step changes the entry of that step; a token changes no entry.
LEMMA RecordEntries ==
    ASSUME NEW c \in Contexts, NEW k \in Steps, NEW e, NEW b, NEW p
    PROVE  record_runtime_token_if_present(record_step(c, k, e), p, k, b).steps = [c.steps EXCEPT ![k] = e]
BY Zenon DEF record_runtime_token_if_present, record_step, Contexts

\* A step that gets ahead either leaves the contexts alone or ends, and then
\* its record is added to the context of its own lane.
LEMMA StepRecords ==
    ASSUME TypeOK, NEW k \in Steps, StepProgress(k)
    PROVE  /\ \A j \in Steps \ {k} : Record(j)' = Record(j)
           /\ \/ context' = context /\ pc'[k] # "done"
              \/ /\ pc'[k] = "done"
                 /\ \A l \in Lanes \ {Lane(k)} : context'[l] = context[l]
                 /\ context'[Lane(k)].steps = [context[Lane(k)].steps EXCEPT ![k] = Record(k)']
<1>0. Types /\ RepliesMatch
  BY Zenon DEF TypeOK
<1>1. Lane(k) \in Lanes
  BY <1>0, LaneParts, Zenon
<1>2. ASSUME NEW s, NEW e, NEW b, Finish(k, s, e, b), Record(k)' = e
      PROVE  /\ pc'[k] = "done"
             /\ \A l \in Lanes \ {Lane(k)} : context'[l] = context[l]
             /\ context'[Lane(k)].steps = [context[Lane(k)].steps EXCEPT ![k] = Record(k)']
  <2>1. context[Lane(k)] \in Contexts
    BY <1>0, <1>1, Zenon DEF Types
  <2>2. context'[Lane(k)] = record_runtime_token_if_present(record_step(context[Lane(k)], k, e), plan, k, b)
    BY <1>0, <1>1, <1>2, Zenon DEF Finish, Types
  <2>3. context'[Lane(k)].steps = [context[Lane(k)].steps EXCEPT ![k] = e]
    BY <2>1, <2>2, RecordEntries, SMTT(60)
  <2>4. pc'[k] = "done" /\ \A l \in Lanes \ {Lane(k)} : context'[l] = context[l]
    BY <1>0, <1>1, <1>2, Zenon DEF Finish, GoTo, Types
  <2> QED
    BY <1>2, <2>3, <2>4, Zenon
<1>3. CASE Prepare(k) \/ LookForService(k) \/ BuildService(k)
  <2>1. reply' = reply /\ reply[k] = "unsent"
    BY <1>0, <1>3, Zenon DEF Prepare, NextOfLane, LookForService, BuildService, RepliesMatch, Unanswered
  <2>2. \A j \in Steps : Record(j)' = Record(j)
    BY <2>1, Zenon DEF Record
  <2>3. Record(k)' = "none"
    BY <2>1, Zenon DEF Record
  <2>4. \/ \E s : Finish(k, s, "none", FALSE)
        \/ context' = context /\ pc'[k] # "done"
    BY <1>0, <1>3, Zenon DEF Prepare, LookForService, BuildService, FinishUnanswered, GoTo, Types
  <2> QED
    BY <1>2, <2>2, <2>3, <2>4, Zenon
<1>4. CASE LockService(k) \/ PublishService(k) \/ LockKeys(k)
  <2>1. reply' = reply /\ context' = context /\ pc'[k] # "done"
    BY <1>0, <1>4, Zenon DEF LockService, PublishService, LockKeys, GoTo, Types
  <2> QED
    BY <2>1, Zenon DEF Record
<1>5. CASE LookForKeys(k) \/ FetchKeys(k) \/ Judge(k)
  <2>1. reply' = reply /\ reply[k] \in {"bare", "full"}
    BY <1>0, <1>5, Zenon DEF LookForKeys, FetchKeys, Judge, FinishAnswered, RepliesMatch, Answered
  <2>2. \A j \in Steps : Record(j)' = Record(j)
    BY <2>1, Zenon DEF Record
  <2>3. Record(k)' = reply[k]
    BY <2>1, Zenon DEF Record
  <2>4. \/ \E s : Finish(k, s, reply[k], k \in minted)
        \/ context' = context /\ pc'[k] # "done"
    BY <1>0, <1>5, Zenon DEF LookForKeys, FetchKeys, Judge, FinishAnswered, GoTo, Types
  <2> QED
    BY <1>2, <2>2, <2>3, <2>4, Zenon
<1>6. CASE Exchange(k)
  <2>1. reply[k] = "unsent"
    BY <1>0, <1>6, Zenon DEF Exchange, RepliesMatch, Unanswered
  <2>2. \A j \in Steps \ {k} : Record(j)' = Record(j)
    BY <1>0, <1>6, ZenonT(60) DEF Exchange, Record, Types
  <2>3. \/ context' = context /\ pc'[k] # "done"
        \/ \E s, e, b : Finish(k, s, e, b) /\ Record(k)' = e
    <3>1. CASE UNCHANGED reply /\ FinishUnanswered(k, "failed")
      BY <2>1, <3>1, Zenon DEF FinishUnanswered, Record
    <3>2. CASE reply' = [reply EXCEPT ![k] = "error"] /\ FinishUnanswered(k, "failed")
      <4>1. Record(k)' = "none"
        BY <1>0, <3>2, Zenon DEF Record, Types
      <4> QED
        BY <3>2, <4>1, Zenon DEF FinishUnanswered
    <3>3. CASE reply' = [reply EXCEPT ![k] = "full"] /\ Finish(k, "passed", "full", FALSE)
      <4>1. Record(k)' = "full"
        BY <1>0, <3>3, Zenon DEF Record, Types
      <4> QED
        BY <3>3, <4>1, Zenon
    <3>4. ASSUME NEW e \in {"bare", "full"}, NEW b, NEW s,
                 reply' = [reply EXCEPT ![k] = e], Finish(k, s, e, b)
          PROVE  \E ss, ee, bb : Finish(k, ss, ee, bb) /\ Record(k)' = ee
      <4>1. Record(k)' = e
        BY <1>0, <3>4, Zenon DEF Record, Types
      <4> QED
        BY <3>4, <4>1, Zenon
    <3>5. CASE GoTo(k, "verifying") /\ UNCHANGED context
      BY <1>0, <3>5, Zenon DEF GoTo, Types
    <3> QED
      BY <1>6, <3>1, <3>2, <3>3, <3>4, <3>5, Zenon DEF Exchange
  <2> QED
    BY <1>2, <2>2, <2>3, Zenon
<1> QED
  BY <1>3, <1>4, <1>5, <1>6, Zenon DEF StepProgress


LEMMA NextIsolated == TypeOK /\ LaneInv /\ GroupsAreIsolated /\ [Next]_vars => GroupsAreIsolated'
<1> SUFFICES ASSUME TypeOK, Types, LaneInv, GroupsAreIsolated, [Next]_vars PROVE GroupsAreIsolated'
  BY Zenon DEF TypeOK
<1> DEFINE Alive == {"queued", "running", "done"}
<1>0. /\ \A k \in Steps : Lane(k) \in Lanes
      /\ \A l \in Lanes : StepsOf(l) \subseteq Steps
      /\ \A l \in Lanes : \A k \in StepsOf(l) : Lane(k) = l
      /\ \A k \in Steps : k \in plan.selected => k \in StepsOf(Lane(k))
      /\ Setup \in Lanes /\ Setup \notin Groups /\ Groups \subseteq Lanes
  BY LaneParts, PlanAssumption, Zenon DEF Lanes, Lane, StepsOf, LaneSteps
<1>1. ASSUME plan' = plan
      PROVE  \A l \in Lanes, j \in Steps : Visible(l, j)' <=> Visible(l, j)
  BY <1>1, Zenon DEF Visible, StepsOf
<1>2. ASSUME NEW k \in Steps, StepProgress(k) PROVE GroupsAreIsolated'
  <2>1. PICK x \in Busy \union {"done"} : pc' = [pc EXCEPT ![k] = x]
    BY <1>2, StepMoves, Zenon
  <2>2. plan' = plan /\ lane' = lane /\ (NextOfLane(k) \/ pc[k] \in Busy)
    BY <1>2, StepMoves, Zenon
  <2>3. lane[Lane(k)] = "running" /\ k \in StepsOf(Lane(k)) /\ pc[k] # "done"
    BY <1>0, <2>2, Zenon DEF NextOfLane, LaneInv, Busy
  <2>4. \A j \in Steps \ {k} : pc'[j] = pc[j] /\ Record(j)' = Record(j)
    BY <1>2, <2>1, StepRecords, Zenon DEF Types
  <2>5. SUFFICES ASSUME NEW l \in Lanes, lane[l] \in Alive, NEW j \in Steps
                 PROVE  context'[l].steps[j] = IF Visible(l, j) /\ pc'[j] = "done" THEN Record(j)' ELSE "absent"
    BY <1>1, <2>2, Zenon DEF GroupsAreIsolated
  <2>6. context[l].steps[j] = IF Visible(l, j) /\ pc[j] = "done" THEN Record(j) ELSE "absent"
    BY <2>5, Zenon DEF GroupsAreIsolated
  <2>7. context[l].steps \in [Steps -> Entries]
    BY <2>5, Zenon DEF Types, Contexts
  <2>8. CASE l # Lane(k)
    <3>1. context'[l] = context[l]
      BY <1>2, <2>5, <2>8, StepRecords, Zenon
    <3>2. Lane(k) # Setup
      BY <2>3, <2>5, <2>8, Zenon DEF LaneInv, Lanes
    <3>3. ~Visible(l, k)
      BY <1>0, <2>5, <2>8, <3>2, Zenon DEF Visible
    <3> QED
      BY <2>4, <2>6, <3>1, <3>3, Zenon
  <2>9. CASE l = Lane(k)
    <3>1. Visible(l, k)
      BY <2>3, <2>9, Zenon DEF Visible
    <3>2. CASE context' = context /\ pc'[k] # "done"
      BY <2>3, <2>4, <2>6, <3>2, Zenon
    <3>3. CASE pc'[k] = "done" /\ context'[l].steps = [context[l].steps EXCEPT ![k] = Record(k)']
      BY <2>4, <2>6, <2>7, <3>1, <3>3, Zenon
    <3> QED
      BY <1>2, <2>9, <3>2, <3>3, StepRecords, Zenon
  <2> QED
    BY <2>8, <2>9, Zenon
<1>3. ASSUME NEW k \in Steps, StepRaises(k) PROVE GroupsAreIsolated'
  <2>1. /\ plan' = plan /\ context' = context /\ reply' = reply
        /\ pc' = [pc EXCEPT ![k] = "raised"]
        /\ lane' = [lane EXCEPT ![Lane(k)] = "raised"]
    BY <1>3, Zenon DEF StepRaises, GoTo
  <2>2. pc[k] # "done"
    BY <1>3, Zenon DEF StepRaises, NextOfLane
  <2>3. \A j \in Steps : pc'[j] = "done" <=> pc[j] = "done"
    BY <2>1, <2>2, Zenon DEF Types
  <2>4. \A l \in Lanes : lane'[l] \in Alive => lane[l] \in Alive
    BY <2>1, Zenon DEF Types
  <2> QED
    BY <1>1, <2>1, <2>3, <2>4, Zenon DEF GroupsAreIsolated, Record
<1>4. ASSUME NEW g \in Groups, StartGroup(g) \/ GroupEnds(g) PROVE GroupsAreIsolated'
  <2>1. plan' = plan /\ context' = context /\ reply' = reply /\ pc' = pc
    BY <1>4, Zenon DEF StartGroup, GroupEnds, stepVars
  <2>2. \A l \in Lanes : lane'[l] \in Alive => lane[l] \in Alive
    BY <1>0, <1>4, Zenon DEF StartGroup, GroupEnds, LaneIsThrough, Types
  <2> QED
    BY <1>1, <2>1, <2>2, Zenon DEF GroupsAreIsolated, Record
<1>5. ASSUME SubmitGroups PROVE GroupsAreIsolated'
  <2>1. /\ plan' = plan /\ reply' = reply /\ pc' = pc
        /\ lane[Setup] = "running"
        /\ \A l \in Lanes : context'[l] = context[Setup]
    BY <1>5, Zenon DEF SubmitGroups, LaneIsThrough
  <2>2. \A j \in Steps : context[Setup].steps[j] = IF j \in StepsOf(Setup) /\ pc[j] = "done" THEN Record(j) ELSE "absent"
    BY <1>0, <2>1, Zenon DEF GroupsAreIsolated, Visible
  <2>3. \A j \in Steps : pc[j] = "done" => j \in StepsOf(Setup)
    BY <1>0, <2>1, Zenon DEF LaneInv, Lanes
  <2>4. \A l \in Lanes, j \in Steps : Visible(l, j) /\ pc[j] = "done" <=> j \in StepsOf(Setup) /\ pc[j] = "done"
    BY <2>3, Zenon DEF Visible
  <2>5. \A j \in Steps : Record(j)' = Record(j)
    BY <2>1, Zenon DEF Record
  <2> QED
    BY <1>1, <2>1, <2>2, <2>4, <2>5, ZenonT(60) DEF GroupsAreIsolated
<1>6. ASSUME Join \/ UNCHANGED vars PROVE GroupsAreIsolated'
  BY <1>1, <1>6, ZenonT(60) DEF Join, vars, stepVars, GroupsAreIsolated, Record
<1> QED
  BY <1>2, <1>3, <1>4, <1>5, <1>6, Zenon DEF Next, GroupProgress, Rest

\* What a lane knows of a step is the record that the step left, if it is a
\* finished step of setup or of the lane itself, and nothing otherwise: for
\* any plan, any number of groups and any interleaving, the context that
\* _execute_v1_steps carries is untouched by the other groups.
THEOREM GroupsIsolated == Spec => []GroupsAreIsolated
<1>1. Init => GroupsAreIsolated
  BY DEF Init, GroupsAreIsolated, EmptyContext
<1> QED
  BY <1>1, NextIsolated, LaneInvariant, ExecutorTypeCorrect, PTL DEF Spec

-----------------------------------------------------------------------------
(* The executor implements the ordered execution of the plan, and skips a  *)
(* step for what its predecessors left and nothing else.                   *)

\* A step that gets ahead has its result when it is done, and not before.
LEMMA StepYields ==
    ASSUME Types, NEW k \in Steps, StepProgress(k)
    PROVE  \/ result' = result /\ pc'[k] # "done"
           \/ /\ pc'[k] = "done"
              /\ \E r \in {"passed", "failed", "skipped"} : result' = [result EXCEPT ![k] = r]
<1> USE DEF GoTo, Finish, FinishUnanswered, FinishAnswered, Verdicts, Types
<1>1. CASE Prepare(k) \/ LookForService(k) \/ BuildService(k)
  BY <1>1, ZenonT(60) DEF Prepare, LookForService, BuildService
<1>2. CASE LockService(k) \/ PublishService(k) \/ LockKeys(k)
  BY <1>2, Zenon DEF LockService, PublishService, LockKeys
<1>3. CASE Exchange(k)
  BY <1>3, Zenon DEF Exchange
<1>4. CASE LookForKeys(k) \/ FetchKeys(k) \/ Judge(k)
  BY <1>4, Zenon DEF LookForKeys, FetchKeys, Judge
<1> QED
  BY <1>1, <1>2, <1>3, <1>4, Zenon DEF StepProgress

\* Results go with the ends of steps, and the end of a lane with its steps.
ResultInv ==
    /\ \A k \in Steps : result[k] # "none" <=> pc[k] = "done"
    /\ \A l \in Lanes : lane[l] = "raised" => \E k \in StepsOf(l) : pc[k] = "raised"
    /\ \A g \in Groups : lane[g] = "done" => \A k \in StepsOf(g) : pc[k] = "done"

\* Who gets ahead or raises is in a running lane, and has no result yet.
LEMMA StepIsNext ==
    ASSUME Types, LaneInv, NEW k \in Steps, NextOfLane(k) \/ pc[k] \in Busy
    PROVE  /\ lane[Lane(k)] = "running" /\ Lane(k) \in Lanes
           /\ k \in plan.selected /\ k \in StepsOf(Lane(k))
           /\ pc[k] \notin {"done", "raised"}
           /\ stage \notin Ended
           /\ \A j \in Before(plan, k) : pc[j] = "done"
<1>1. /\ lane[Lane(k)] = "running" /\ Lane(k) \in Lanes /\ pc[k] \notin {"done", "raised"}
  BY LaneParts, Zenon DEF NextOfLane, LaneInv, Busy
<1>2. k \in plan.selected
  BY Zenon DEF NextOfLane, LaneInv, Busy, StepsOf, LaneSteps
<1>3. k \in StepsOf(Lane(k))
  BY <1>2, Zenon DEF StepsOf, LaneSteps, Lane
<1>4. stage \notin Ended
  BY <1>1, Zenon DEF LaneInv
<1>5. \A j \in StepsOf(Lane(k)) : j < k => pc[j] = "done"
  BY Zenon DEF NextOfLane, LaneInv, Busy
<1>6. Lane(k) # Setup => \A j \in StepsOf(Setup) : pc[j] = "done"
  BY <1>1, Zenon DEF LaneInv, Lanes
<1> QED
  BY <1>1, <1>2, <1>3, <1>4, <1>5, <1>6, Zenon DEF Before, Lane, StepsOf

LEMMA NextResult == TypeOK /\ LaneInv /\ ResultInv /\ [Next]_vars => ResultInv'
<1> SUFFICES ASSUME Types, LaneInv, ResultInv, [Next]_vars PROVE ResultInv'
  BY Zenon DEF TypeOK
<1>0. /\ \A l \in Lanes : StepsOf(l) \subseteq Steps
      /\ \A l \in Lanes : \A k \in StepsOf(l) : Lane(k) = l
      /\ Groups \subseteq Lanes
  BY LaneParts, Zenon DEF Lanes
<1>1. ASSUME plan' = plan
      PROVE  \A l \in Lanes : StepsOf(l)' = StepsOf(l)
  BY <1>1, Zenon DEF StepsOf
<1>2. ASSUME NEW k \in Steps, StepProgress(k) PROVE ResultInv'
  <2>1. PICK x \in Busy \union {"done"} : pc' = [pc EXCEPT ![k] = x]
    BY <1>2, StepMoves, Zenon
  <2>2. plan' = plan /\ lane' = lane /\ (NextOfLane(k) \/ pc[k] \in Busy)
    BY <1>2, StepMoves, Zenon
  <2>3. lane[Lane(k)] = "running" /\ pc[k] \notin {"done", "raised"}
    BY <2>2, StepIsNext, Zenon
  <2>4. \A j \in Steps : pc'[j] = IF j = k THEN x ELSE pc[j]
    BY <2>1, Zenon DEF Types
  <2>5. \A j \in Steps : result'[j] # "none" <=> pc'[j] = "done"
    BY <1>2, <2>3, <2>4, StepYields DEF ResultInv, Types
  <2> QED
    BY <1>0, <1>1, <2>2, <2>3, <2>4, <2>5 DEF ResultInv
<1>3. ASSUME NEW k \in Steps, StepRaises(k) PROVE ResultInv'
  <2>1. /\ plan' = plan /\ result' = result
        /\ pc' = [pc EXCEPT ![k] = "raised"]
        /\ lane' = [lane EXCEPT ![Lane(k)] = "raised"]
        /\ NextOfLane(k) \/ pc[k] \in Busy
    BY <1>3, Zenon DEF StepRaises, GoTo, Busy
  <2>2. lane[Lane(k)] = "running" /\ k \in StepsOf(Lane(k)) /\ pc[k] \notin {"done", "raised"}
    BY <2>1, StepIsNext, Zenon
  <2>3. /\ \A j \in Steps : pc'[j] = IF j = k THEN "raised" ELSE pc[j]
        /\ \A l \in Lanes : lane'[l] = IF l = Lane(k) THEN "raised" ELSE lane[l]
    BY <2>1, Zenon DEF Types
  <2> QED
    BY <1>0, <1>1, <2>1, <2>2, <2>3 DEF ResultInv
<1>4. ASSUME NEW g \in Groups, StartGroup(g) \/ GroupEnds(g) PROVE ResultInv'
  <2>1. plan' = plan /\ pc' = pc /\ result' = result
    BY <1>4, Zenon DEF StartGroup, GroupEnds, stepVars
  <2>2. PICK x \in {"running", "done"} : lane' = [lane EXCEPT ![g] = x]
    BY <1>4, Zenon DEF StartGroup, GroupEnds
  <2>3. \A l \in Lanes : lane'[l] = IF l = g THEN x ELSE lane[l]
    BY <2>2, Zenon DEF Types
  <2>4. lane'[g] = "done" => \A k \in StepsOf(g) : pc[k] = "done"
    BY <1>0, <1>4, Zenon DEF StartGroup, GroupEnds, LaneIsThrough, Types
  <2> QED
    BY <1>0, <1>1, <2>1, <2>3, <2>4 DEF ResultInv
<1>5. ASSUME SubmitGroups PROVE ResultInv'
  <2>1. /\ plan' = plan /\ pc' = pc /\ result' = result
        /\ \A l \in Lanes : lane'[l] = IF l = Setup THEN "done" ELSE IF l \in GroupIds(plan) THEN "queued" ELSE "idle"
    BY <1>5, Zenon DEF SubmitGroups
  <2>2. Setup \notin Groups
    BY PlanAssumption, ZenonT(60)
  <2> QED
    BY <1>0, <1>1, <2>1, <2>2, Zenon DEF ResultInv
<1>6. ASSUME Join \/ UNCHANGED vars PROVE ResultInv'
  BY <1>0, <1>1, <1>6 DEF Join, vars, stepVars, ResultInv
<1> QED
  BY <1>2, <1>3, <1>4, <1>5, <1>6, Zenon DEF Next, GroupProgress, Rest

LEMMA ResultInvariant == Spec => []ResultInv
<1>1. Init => ResultInv
  BY PlanAssumption, ZenonT(60) DEF Init, ResultInv, Lanes
<1> QED
  BY <1>1, NextResult, LaneInvariant, ExecutorTypeCorrect, PTL DEF Spec

\* The abstract specification talks of the same schedule.
LEMMA SameSchedule ==
    /\ Ordered!Steps = Steps
    /\ \A k : Ordered!Before(plan, k) = Before(plan, k)
BY Zenon DEF Ordered!Steps, Steps, Ordered!Before, Before, Ordered!LaneSteps, LaneSteps, Ordered!LaneOf, LaneOf

LEMMA OrderedStep ==
    ASSUME TypeOK, LaneInv, ResultInv, [Next]_vars
    PROVE  [Ordered!Next]_Ordered!vars
<1>0. Types
  BY Zenon DEF TypeOK
<1> USE SameSchedule DEF Ordered!vars
<1>1. ASSUME NEW k \in Steps, StepProgress(k) PROVE [Ordered!Next]_Ordered!vars
  <2>1. plan' = plan /\ stage' = stage /\ (NextOfLane(k) \/ pc[k] \in Busy)
    BY <1>0, <1>1, StepMoves, Zenon
  <2>2. /\ stage \notin Ended /\ k \in plan.selected /\ pc[k] # "done"
        /\ \A j \in Before(plan, k) : pc[j] = "done"
    BY <1>0, <2>1, StepIsNext, Zenon
  <2>3. CASE result' = result
    BY <2>1, <2>3, Zenon
  <2>4. ASSUME NEW r \in {"passed", "failed", "skipped"}, result' = [result EXCEPT ![k] = r]
        PROVE  Ordered!Yield(k)
    <3>1. result[k] = "none" /\ \A j \in Before(plan, k) : result[j] # "none"
      <4>1. Before(plan, k) \subseteq Steps
        BY <1>0, PlanParts, Zenon DEF Before, LaneSteps
      <4> QED
        BY <2>2, <4>1, Zenon DEF ResultInv
    <3> QED
      BY <2>1, <2>2, <2>4, <3>1, Zenon DEF Ordered!Yield
  <2> QED
    BY <1>0, <1>1, <2>3, <2>4, StepYields, Zenon DEF Ordered!Next
<1>2. ASSUME NEW k \in Steps, StepRaises(k) PROVE [Ordered!Next]_Ordered!vars
  <2>1. /\ plan' = plan /\ result' = result /\ (NextOfLane(k) \/ pc[k] \in Busy)
        /\ stage' = IF Lane(k) = Setup THEN "raised" ELSE stage
    BY <1>2, Zenon DEF StepRaises, Busy
  <2>2. stage \notin Ended /\ k \in plan.selected /\ result[k] = "none"
    BY <1>0, <2>1, StepIsNext, Zenon DEF ResultInv
  <2>3. CASE Lane(k) = Setup
    <3>1. Ordered!Raise
      BY <2>1, <2>2, <2>3, Zenon DEF Ordered!Raise, Ended
    <3> QED
      BY <3>1, Zenon DEF Ordered!Next
  <2>4. CASE Lane(k) # Setup
    BY <2>1, <2>4, Zenon
  <2> QED
    BY <2>3, <2>4, Zenon
<1>3. ASSUME NEW g \in Groups, StartGroup(g) \/ GroupEnds(g) PROVE [Ordered!Next]_Ordered!vars
  BY <1>3, Zenon DEF StartGroup, GroupEnds, stepVars
<1>4. ASSUME SubmitGroups PROVE [Ordered!Next]_Ordered!vars
  <2>1. stage \notin Ended /\ stage' = "groups" /\ plan' = plan /\ result' = result
    BY <1>4, Zenon DEF SubmitGroups, LaneIsThrough, LaneInv, Ended
  <2> QED
    BY <2>1, Zenon DEF Ended
<1>5. ASSUME Join PROVE [Ordered!Next]_Ordered!vars
  <2>1. plan' = plan /\ result' = result /\ stage = "groups" /\ GroupsAreOver
    BY <1>5, Zenon DEF Join, stepVars
  <2>2. Groups \subseteq Lanes /\ Setup \in Lanes
    BY Zenon DEF Lanes
  <2>3. CASE \E g \in GroupIds(plan) : lane[g] = "raised"
    <3>1. PICK g \in GroupIds(plan) : lane[g] = "raised"
      BY <2>3, Zenon
    <3>2. g \in Lanes
      BY <2>2, Zenon DEF GroupIds
    <3>3. PICK k \in StepsOf(g) : pc[k] = "raised"
      BY <3>1, <3>2, Zenon DEF ResultInv
    <3>4. k \in plan.selected /\ k \in Steps
      BY <1>0, PlanParts, Zenon DEF StepsOf, LaneSteps
    <3>5. result[k] = "none"
      BY <3>3, <3>4, Zenon DEF ResultInv
    <3>6. stage' = "raised"
      BY <1>5, <2>3, Zenon DEF Join
    <3>7. Ordered!Raise
      BY <2>1, <3>4, <3>5, <3>6, Zenon DEF Ordered!Raise, Ended
    <3> QED
      BY <3>7, Zenon DEF Ordered!Next
  <2>4. CASE ~\E g \in GroupIds(plan) : lane[g] = "raised"
    <3>1. \A g \in GroupIds(plan) : lane[g] = "done"
      BY <2>1, <2>4, Zenon DEF GroupsAreOver
    <3>2. lane[Setup] = "done"
      BY <2>1, Zenon DEF LaneInv
    <3>3. ASSUME NEW k \in plan.selected PROVE result[k] # "none"
      <4>1. k \in Steps /\ k \in StepsOf(Lane(k)) /\ Lane(k) \in Lanes
        BY <1>0, PlanParts, LaneParts, Zenon DEF StepsOf, LaneSteps, Lane
      <4>2. CASE Lane(k) = Setup
        BY <3>2, <4>1, <4>2, Zenon DEF LaneInv, ResultInv
      <4>3. CASE Lane(k) # Setup
        <5>1. Lane(k) \in GroupIds(plan) /\ Lane(k) \in Groups
          BY <4>1, <4>3, Zenon DEF GroupIds, Lanes, StepsOf
        <5> QED
          BY <3>1, <4>1, <5>1, Zenon DEF ResultInv
      <4> QED
        BY <4>2, <4>3, Zenon
    <3>4. stage' = "completed"
      BY <1>5, <2>4, Zenon DEF Join
    <3>5. Ordered!Complete
      BY <2>1, <3>3, <3>4, Zenon DEF Ordered!Complete, Ended
    <3> QED
      BY <3>5, Zenon DEF Ordered!Next
  <2> QED
    BY <2>3, <2>4, Zenon
<1>6. ASSUME UNCHANGED vars PROVE [Ordered!Next]_Ordered!vars
  BY <1>6, Zenon DEF vars, stepVars
<1> QED
  BY <1>1, <1>2, <1>3, <1>4, <1>5, <1>6, Zenon DEF Next, GroupProgress, Rest

\* Whatever the plan, the number of groups and the schedule, threads and caches
\* are invisible in the results: a step gets one result, after every step it
\* may refer to, a run completes when each selected step has one or ends with
\* an exception, and nothing comes after the end (_run_manifest_v1).  This is
\* the safety part of ImplementsOrderedExecution.
THEOREM ExecutionIsOrdered == Spec => Ordered!Spec
<1>1. Init => Ordered!Init
  BY SameSchedule, Zenon DEF Init, Ordered!Init, Ended
<1>2. TypeOK /\ LaneInv /\ ResultInv /\ [Next]_vars => [Ordered!Next]_Ordered!vars
  BY OrderedStep, Zenon
<1> QED
  BY <1>1, <1>2, ResultInvariant, LaneInvariant, ExecutorTypeCorrect, PTL DEF Spec, Ordered!Spec

-----------------------------------------------------------------------------
(* Skips.                                                                  *)

\* The tokens a lane may know: what the visible steps that are over produced.
TokensIn(l) == {plan.produces[j] : j \in {i \in minted : Visible(l, i) /\ pc[i] = "done"}} \ {NoToken}

TokenInv ==
    /\ \A k \in Steps : pc[k] \in Unanswered => k \notin minted
    /\ \A l \in Lanes : lane[l] \in {"queued", "running", "done"} => context[l].tokens = TokensIn(l)

\* What a step adds to the tokens of its lane.
Minted(k) == IF k \in minted /\ plan.produces[k] # NoToken THEN {plan.produces[k]} ELSE {}

LEMMA RecordTokens ==
    ASSUME NEW c \in Contexts, NEW k \in Steps, NEW e, NEW b \in BOOLEAN, NEW p
    PROVE  record_runtime_token_if_present(record_step(c, k, e), p, k, b).tokens
             = c.tokens \union (IF p.produces[k] # NoToken /\ b THEN {p.produces[k]} ELSE {})
BY Zenon DEF record_runtime_token_if_present, record_step, Contexts

LEMMA StepMints ==
    ASSUME TypeOK, TokenInv, NEW k \in Steps, StepProgress(k)
    PROVE  /\ \A j \in Steps \ {k} : j \in minted' <=> j \in minted
           /\ minted' \subseteq Steps
           /\ pc'[k] \in Unanswered => k \notin minted'
           /\ \/ context' = context /\ pc'[k] # "done"
              \/ /\ pc'[k] = "done"
                 /\ \A l \in Lanes \ {Lane(k)} : context'[l] = context[l]
                 /\ context'[Lane(k)].tokens = context[Lane(k)].tokens \union Minted(k)'
<1>0. Types /\ RepliesMatch
  BY Zenon DEF TypeOK
<1>1. Lane(k) \in Lanes /\ plan' = plan
  BY <1>0, LaneParts, StepMoves, Zenon
<1>2. ASSUME NEW s, NEW e, NEW b \in BOOLEAN, Finish(k, s, e, b), k \in minted' <=> b
      PROVE  /\ pc'[k] = "done"
             /\ \A l \in Lanes \ {Lane(k)} : context'[l] = context[l]
             /\ context'[Lane(k)].tokens = context[Lane(k)].tokens \union Minted(k)'
  <2>1. context[Lane(k)] \in Contexts
    BY <1>0, <1>1, Zenon DEF Types
  <2>2. context'[Lane(k)] = record_runtime_token_if_present(record_step(context[Lane(k)], k, e), plan, k, b)
    BY <1>0, <1>1, <1>2, Zenon DEF Finish, Types
  <2>3. context'[Lane(k)].tokens
          = context[Lane(k)].tokens \union (IF plan.produces[k] # NoToken /\ b THEN {plan.produces[k]} ELSE {})
    BY <2>1, <2>2, RecordTokens
  <2>4. pc'[k] = "done" /\ \A l \in Lanes \ {Lane(k)} : context'[l] = context[l]
    BY <1>0, <1>1, <1>2, Zenon DEF Finish, GoTo, Types
  <2> QED
    BY <1>1, <1>2, <2>3, <2>4, Zenon DEF Minted
<1>3. CASE Prepare(k) \/ LookForService(k) \/ BuildService(k)
  <2>1. minted' = minted /\ k \notin minted
    BY <1>3, Zenon DEF Prepare, NextOfLane, LookForService, BuildService, FinishUnanswered, TokenInv, Unanswered
  <2>2. \/ \E s : Finish(k, s, "none", FALSE)
        \/ context' = context /\ pc'[k] # "done"
    BY <1>0, <1>3, ZenonT(60) DEF Prepare, LookForService, BuildService, FinishUnanswered, GoTo, Types
  <2> QED
    BY <1>0, <1>2, <2>1, <2>2, Zenon DEF Types
<1>4. CASE LockService(k) \/ PublishService(k) \/ LockKeys(k)
  <2>1. minted' = minted /\ context' = context /\ pc'[k] # "done"
    BY <1>0, <1>4, Zenon DEF LockService, PublishService, LockKeys, GoTo, Types
  <2>2. pc'[k] \in Unanswered => pc[k] \in Unanswered
    BY <1>0, <1>4, ZenonT(60) DEF LockService, PublishService, LockKeys, GoTo, Types, Unanswered
  <2> QED
    BY <1>0, <2>1, <2>2, Zenon DEF Types, TokenInv
<1>5. CASE LookForKeys(k) \/ FetchKeys(k) \/ Judge(k)
  <2>1. minted' = minted
    BY <1>5, Zenon DEF LookForKeys, FetchKeys, Judge, FinishAnswered
  <2>2. (k \in minted) \in BOOLEAN
    OBVIOUS
  <2>3. \/ \E s : Finish(k, s, reply[k], k \in minted)
        \/ context' = context /\ pc'[k] # "done"
    BY <1>0, <1>5, Zenon DEF LookForKeys, FetchKeys, Judge, FinishAnswered, GoTo, Types
  <2>4. pc'[k] \notin Unanswered
    BY <1>0, <1>5, ZenonT(60) DEF LookForKeys, FetchKeys, Judge, FinishAnswered, Finish, GoTo, Types, Unanswered
  <2>5. minted' \subseteq Steps
    BY <1>0, <2>1, Zenon DEF Types
  <2>6. CASE context' = context /\ pc'[k] # "done"
    BY <2>1, <2>4, <2>5, <2>6, Zenon
  <2>7. ASSUME NEW s, Finish(k, s, reply[k], k \in minted)
        PROVE  /\ pc'[k] = "done"
               /\ \A l \in Lanes \ {Lane(k)} : context'[l] = context[l]
               /\ context'[Lane(k)].tokens = context[Lane(k)].tokens \union Minted(k)'
    BY <1>2, <2>1, <2>2, <2>7, Zenon
  <2> QED
    BY <2>1, <2>3, <2>4, <2>5, <2>6, <2>7, Zenon
<1>6. CASE Exchange(k)
  <2>1. k \notin minted
    BY <1>6, Zenon DEF Exchange, TokenInv, Unanswered
  <2>2. minted' = minted \/ minted' = minted \union {k}
    BY <1>6, Zenon DEF Exchange, FinishUnanswered
  <2>3. pc'[k] \notin Unanswered
    BY <1>0, <1>6, ZenonT(60) DEF Exchange, FinishUnanswered, Finish, GoTo, Types, Unanswered
  <2>4. \/ context' = context /\ pc'[k] # "done"
        \/ \E s, e, b : b \in BOOLEAN /\ Finish(k, s, e, b) /\ (k \in minted' <=> b)
    <3>1. CASE FinishUnanswered(k, "failed")
      BY <2>1, <3>1, Zenon DEF FinishUnanswered
    <3>2. CASE Finish(k, "passed", "full", FALSE) /\ UNCHANGED minted
      BY <2>1, <3>2, Zenon
    <3>3. ASSUME NEW e, NEW b \in {FALSE, plan.produces[k] # NoToken}, NEW s,
                 minted' = IF b THEN minted \union {k} ELSE minted, Finish(k, s, e, b)
          PROVE  \E ss, ee, bb : bb \in BOOLEAN /\ Finish(k, ss, ee, bb) /\ (k \in minted' <=> bb)
      <4>1. b \in BOOLEAN /\ (k \in minted' <=> b)
        BY <2>1, <3>3, Zenon
      <4> QED
        BY <3>3, <4>1, Zenon
    <3>4. CASE GoTo(k, "verifying") /\ UNCHANGED context
      BY <1>0, <3>4, Zenon DEF GoTo, Types
    <3> QED
      BY <1>6, <3>1, <3>2, <3>3, <3>4, Zenon DEF Exchange
  <2> QED
    BY <1>0, <1>2, <2>2, <2>3, <2>4 DEF Types
<1> QED
  BY <1>3, <1>4, <1>5, <1>6, Zenon DEF StepProgress

LEMMA NextToken == TypeOK /\ LaneInv /\ TokenInv /\ [Next]_vars => TokenInv'
<1> SUFFICES ASSUME TypeOK, Types, LaneInv, TokenInv, [Next]_vars PROVE TokenInv'
  BY Zenon DEF TypeOK
<1> DEFINE Alive == {"queued", "running", "done"}
<1>0. /\ \A k \in Steps : Lane(k) \in Lanes
      /\ \A l \in Lanes : StepsOf(l) \subseteq Steps
      /\ \A l \in Lanes : \A k \in StepsOf(l) : Lane(k) = l
      /\ Setup \in Lanes /\ Setup \notin Groups /\ Groups \subseteq Lanes
  BY LaneParts, PlanAssumption, Zenon DEF Lanes
<1>1. ASSUME plan' = plan
      PROVE  \A l \in Lanes, j \in Steps : Visible(l, j)' <=> Visible(l, j)
  BY <1>1, Zenon DEF Visible, StepsOf
<1>2. ASSUME NEW k \in Steps, StepProgress(k) PROVE TokenInv'
  <2>1. plan' = plan /\ lane' = lane /\ (NextOfLane(k) \/ pc[k] \in Busy)
    BY <1>2, StepMoves, ZenonT(60)
  <2>2. \A j \in Steps \ {k} : pc'[j] = pc[j] /\ (j \in minted' <=> j \in minted)
    BY <1>2, StepMoves, StepMints DEF Types
  <2>3. minted' \subseteq Steps /\ minted \subseteq Steps /\ (pc'[k] \in Unanswered => k \notin minted')
    BY <1>2, StepMints, Zenon DEF Types
  <2>4. lane[Lane(k)] = "running" /\ k \in StepsOf(Lane(k)) /\ pc[k] # "done"
    BY <2>1, StepIsNext, Zenon
  <2>5. ASSUME NEW l \in Lanes, lane[l] \in Alive
        PROVE  context'[l].tokens = TokensIn(l)'
    <3>1. context[l].tokens = TokensIn(l)
      BY <2>5, Zenon DEF TokenInv
    <3>2. CASE l # Lane(k) \/ pc'[k] # "done"
      <4>1. context'[l] = context[l]
        BY <1>2, <2>5, <3>2, StepMints, Zenon
      <4>2. ~(Visible(l, k) /\ pc'[k] = "done")
        <5>1. CASE pc'[k] # "done"
          BY <5>1, Zenon
        <5>2. CASE l # Lane(k)
          <6>1. Lane(k) # Setup
            BY <2>4, <2>5, <5>2, Zenon DEF LaneInv, Lanes
          <6> QED
            BY <1>0, <2>5, <5>2, <6>1, Zenon DEF Visible
        <5> QED
          BY <3>2, <5>1, <5>2, Zenon
      <4>3. {i \in minted : Visible(l, i) /\ pc[i] = "done"}' = {i \in minted : Visible(l, i) /\ pc[i] = "done"}
        BY <1>1, <2>1, <2>2, <2>3, <2>4, <4>2, Zenon
      <4>4. TokensIn(l)' = TokensIn(l)
        BY <2>1, <4>3, Zenon DEF TokensIn
      <4> QED
        BY <3>1, <4>1, <4>4, Zenon
    <3>3. CASE l = Lane(k) /\ pc'[k] = "done"
      <4>1. context'[l].tokens = context[l].tokens \union Minted(k)'
        BY <1>2, <3>3, StepMints, Zenon
      <4>2. Visible(l, k)
        BY <2>4, <3>3, Zenon DEF Visible
      <4>3. \A i \in Steps : i \in {j \in minted : Visible(l, j) /\ pc[j] = "done"}'
                <=> i \in {j \in minted : Visible(l, j) /\ pc[j] = "done"} \/ (i = k /\ k \in minted')
        BY <1>1, <2>1, <2>2, <2>4, <3>3, <4>2, Zenon
      <4>4. {j \in minted : Visible(l, j) /\ pc[j] = "done"}'
              = {j \in minted : Visible(l, j) /\ pc[j] = "done"} \union (IF k \in minted' THEN {k} ELSE {})
        BY <2>3, <4>3, Zenon
      <4>5. TokensIn(l)' = TokensIn(l) \union Minted(k)'
        BY <2>1, <4>4, ZenonT(60) DEF TokensIn, Minted
      <4> QED
        BY <3>1, <4>1, <4>5, Zenon
    <3> QED
      BY <3>2, <3>3, Zenon
  <2> QED
    BY <2>1, <2>2, <2>3, <2>5, Zenon DEF TokenInv
<1>3. ASSUME NEW k \in Steps, StepRaises(k) PROVE TokenInv'
  <2>1. /\ plan' = plan /\ context' = context /\ minted' = minted
        /\ pc' = [pc EXCEPT ![k] = "raised"]
        /\ lane' = [lane EXCEPT ![Lane(k)] = "raised"]
        /\ pc[k] # "done"
    BY <1>3, Zenon DEF StepRaises, GoTo, NextOfLane
  <2>2. \A j \in Steps : pc'[j] = "done" <=> pc[j] = "done"
    BY <2>1, Zenon DEF Types
  <2>3. \A l \in Lanes : lane'[l] \in Alive => lane[l] \in Alive
    BY <2>1, Zenon DEF Types
  <2>4. \A l \in Lanes : TokensIn(l)' = TokensIn(l)
    <3> TAKE l \in Lanes
    <3>1. {i \in minted : Visible(l, i) /\ pc[i] = "done"}' = {i \in minted : Visible(l, i) /\ pc[i] = "done"}
      BY <1>1, <2>1, <2>2, Zenon DEF Types
    <3> QED
      BY <2>1, <3>1, Zenon DEF TokensIn
  <2>5. \A j \in Steps : pc'[j] \in Unanswered => pc[j] \in Unanswered
    BY <2>1, Zenon DEF Types, Unanswered
  <2> QED
    BY <2>1, <2>3, <2>4, <2>5, Zenon DEF TokenInv
<1>4. ASSUME NEW g \in Groups, StartGroup(g) \/ GroupEnds(g) PROVE TokenInv'
  <2>1. plan' = plan /\ context' = context /\ minted' = minted /\ pc' = pc
    BY <1>4, Zenon DEF StartGroup, GroupEnds, stepVars
  <2>2. \A l \in Lanes : lane'[l] \in Alive => lane[l] \in Alive
    BY <1>0, <1>4, ZenonT(60) DEF StartGroup, GroupEnds, LaneIsThrough, Types
  <2>3. \A l \in Lanes : TokensIn(l)' = TokensIn(l)
    BY <2>1, Zenon DEF TokensIn, Visible, StepsOf
  <2> QED
    BY <2>1, <2>2, <2>3, Zenon DEF TokenInv
<1>5. ASSUME SubmitGroups PROVE TokenInv'
  <2>1. /\ plan' = plan /\ minted' = minted /\ pc' = pc
        /\ lane[Setup] = "running"
        /\ \A l \in Lanes : context'[l] = context[Setup]
    BY <1>5, Zenon DEF SubmitGroups, LaneIsThrough
  <2>2. \A j \in Steps : pc[j] = "done" => j \in StepsOf(Setup)
    <3> TAKE j \in Steps
    <3> HAVE pc[j] = "done"
    <3>1. Lane(j) = Setup /\ j \in plan.selected
      BY <1>0, <2>1, Zenon DEF LaneInv, Lanes
    <3> QED
      BY <3>1, Zenon DEF StepsOf, LaneSteps, Lane
  <2>3. \A l \in Lanes : TokensIn(l)' = TokensIn(Setup)
    <3> TAKE l \in Lanes
    <3>1. {i \in minted : Visible(l, i) /\ pc[i] = "done"}' = {i \in minted : Visible(Setup, i) /\ pc[i] = "done"}
      <4>1. \A i \in minted : pc[i] = "done" => Visible(l, i)' /\ Visible(Setup, i)
        BY <1>1, <2>1, <2>2, Zenon DEF Visible, Types
      <4> QED
        BY <2>1, <4>1, Zenon
    <3> QED
      BY <2>1, <3>1, Zenon DEF TokensIn
  <2>4. context[Setup].tokens = TokensIn(Setup)
    BY <1>0, <2>1, Zenon DEF TokenInv
  <2> QED
    BY <2>1, <2>3, <2>4, Zenon DEF TokenInv
<1>6. ASSUME Join \/ UNCHANGED vars PROVE TokenInv'
  <2>1. UNCHANGED <<plan, lane, context, minted, pc>>
    BY <1>6, Zenon DEF Join, vars, stepVars
  <2> QED
    BY <2>1, ZenonT(60) DEF TokenInv, TokensIn, Visible, StepsOf
<1> QED
  BY <1>2, <1>3, <1>4, <1>5, <1>6, Zenon DEF Next, GroupProgress, Rest

\* The two rounds of placeholders of a step, against what it may know.
First(k) == resolve_placeholders(View(k), plan.refs[k])

Later(k) == resolve_placeholders(View(k), plan.later[k])

\* What became of a step agrees with its placeholders.
Explained(k) ==
    /\ result[k] = "skipped" => First(k) = "missing" \/ (First(k) = "ok" /\ Later(k) = "missing")
    /\ k \notin plan.unsupported /\ First(k) = "missing" => result[k] = "skipped"
    /\ k \in plan.unsupported \/ First(k) # "ok" \/ Later(k) # "ok" => reply[k] = "unsent" /\ result[k] # "passed"

SkipInv ==
    \A k \in Steps :
        /\ pc[k] \in Busy => k \notin plan.unsupported /\ First(k) = "ok" /\ Later(k) = "ok"
        /\ pc[k] = "done" => Explained(k)

\* A step that starts is shown exactly what the steps before it left.
LEMMA StartsFromView ==
    ASSUME TypeOK, LaneInv, TokenInv, GroupsAreIsolated, NEW k \in Steps, NextOfLane(k)
    PROVE  context[Lane(k)] = View(k)
<1>0. Types
  BY Zenon DEF TypeOK
<1>1. lane[Lane(k)] = "running" /\ Lane(k) \in Lanes /\ \A j \in Before(plan, k) : pc[j] = "done"
  BY <1>0, StepIsNext, Zenon
<1>2. \A j \in Steps : (Visible(Lane(k), j) /\ pc[j] = "done") <=> j \in Before(plan, k)
  <2> TAKE j \in Steps
  <2>1. ASSUME Visible(Lane(k), j), pc[j] = "done" PROVE j \in Before(plan, k)
    <3>1. CASE j \in StepsOf(Lane(k))
      <4>1. Lane(j) = Lane(k)
        BY <1>0, <1>1, <3>1, LaneParts, Zenon
      <4>2. ~(k < j)
        BY <2>1, <4>1, Zenon DEF LaneInv, NextOfLane
      <4>3. j < k
        BY <2>1, <4>2, PlanAssumption DEF Steps, NextOfLane
      <4> QED
        BY <3>1, <4>3, Zenon DEF Before, StepsOf, Lane
    <3>2. CASE j \notin StepsOf(Lane(k))
      BY <2>1, <3>2, Zenon DEF Visible, Before, StepsOf, Lane
    <3> QED
      BY <3>1, <3>2, Zenon
  <2>2. ASSUME j \in Before(plan, k) PROVE Visible(Lane(k), j) /\ pc[j] = "done"
    BY <1>1, <2>2, Zenon DEF Visible, Before, StepsOf, Lane
  <2> QED
    BY <2>1, <2>2, Zenon
<1>3. context[Lane(k)] \in Contexts
  BY <1>0, <1>1, Zenon DEF Types
<1>4. context[Lane(k)].steps = View(k).steps
  BY <1>1, <1>2, <1>3, ZenonT(60) DEF GroupsAreIsolated, Contexts, View
<1>5. {i \in minted : Visible(Lane(k), i) /\ pc[i] = "done"} = minted \intersect Before(plan, k)
  BY <1>0, <1>2, Zenon DEF Types
<1>6. context[Lane(k)].tokens = View(k).tokens
  BY <1>1, <1>5, Zenon DEF TokenInv, TokensIn, View
<1> QED
  BY <1>3, <1>4, <1>6, Zenon DEF Contexts, View

\* The view of a step that has started does not change any more.
LEMMA ViewIsFixed ==
    ASSUME TypeOK, LaneInv, TokenInv, NEW k \in Steps, StepProgress(k), NEW i \in Steps,
           i = k \/ pc[i] # "waiting"
    PROVE  View(i)' = View(i)
<1>0. Types
  BY Zenon DEF TypeOK
<1>1. plan' = plan /\ (NextOfLane(k) \/ pc[k] \in Busy)
  BY <1>0, StepMoves, Zenon
<1>2. pc[k] # "done" /\ \A j \in Before(plan, k) : pc[j] = "done"
  BY <1>0, <1>1, StepIsNext, Zenon
<1>3. \A j \in Before(plan, i) : pc[j] = "done"
  <2>1. CASE i = k
    BY <1>2, <2>1, Zenon
  <2>2. CASE pc[i] # "waiting"
    <3>1. \A j \in StepsOf(Lane(i)) : j < i => pc[j] = "done"
      BY <2>2, Zenon DEF LaneInv
    <3>2. Lane(i) # Setup => \A j \in StepsOf(Setup) : pc[j] = "done"
      <4>1. Lane(i) \in Lanes /\ lane[Lane(i)] # "idle"
        BY <1>0, <2>2, LaneParts, Zenon DEF LaneInv
      <4> QED
        BY <4>1, Zenon DEF LaneInv, Lanes
    <3> QED
      BY <3>1, <3>2, Zenon DEF Before, StepsOf, Lane
  <2> QED
    BY <2>1, <2>2, Zenon
<1>4. k \notin Before(plan, i) /\ Before(plan, i) \subseteq Steps
  BY <1>0, <1>2, <1>3, PlanParts, Zenon DEF Before, LaneSteps
<1>5. \A j \in Before(plan, i) : Record(j)' = Record(j) /\ (j \in minted' <=> j \in minted)
  BY <1>4, StepRecords, StepMints, Zenon
<1>6. Before(plan, i)' = Before(plan, i)
  BY <1>1, Zenon
<1>7. (minted \intersect Before(plan, i))' = minted \intersect Before(plan, i)
  BY <1>5, <1>6, Zenon
<1>8. View(i).tokens' = View(i).tokens
  BY <1>1, <1>7, Zenon DEF View
<1>9. View(i).steps' = View(i).steps
  BY <1>5, <1>6, Zenon DEF View
<1> QED
  BY <1>8, <1>9, Zenon DEF View

\* A step changes no other step's reply.
LEMMA OtherReplies ==
    ASSUME Types, NEW k \in Steps, StepProgress(k), NEW j \in Steps, j # k
    PROVE  reply'[j] = reply[j]
<1>1. CASE Exchange(k)
  BY <1>1, Zenon DEF Exchange, Types
<1>2. CASE ~Exchange(k)
  BY <1>2, Zenon DEF StepProgress, Prepare, LookForService, LockService, BuildService, PublishService,
     LookForKeys, LockKeys, FetchKeys, Judge, FinishAnswered
<1> QED
  BY <1>1, <1>2, Zenon

LEMMA NextSkip ==
    ASSUME TypeOK, LaneInv, TokenInv, GroupsAreIsolated, SkipInv, [Next]_vars
    PROVE  SkipInv'
<1>0. Types /\ RepliesMatch
  BY Zenon DEF TypeOK
<1>1. ASSUME NEW k \in Steps, StepProgress(k) PROVE SkipInv'
  <2>1. PICK x \in Busy \union {"done"} : pc' = [pc EXCEPT ![k] = x]
    BY <1>0, <1>1, StepMoves, Zenon
  <2>2. plan' = plan /\ (NextOfLane(k) \/ pc[k] \in Busy)
    BY <1>0, <1>1, StepMoves, Zenon
  <2>3. \A j \in Steps : pc'[j] = IF j = k THEN x ELSE pc[j]
    BY <1>0, <2>1, Zenon DEF Types
  <2>4. \A j \in Steps \ {k} : result'[j] = result[j]
    BY <1>0, <1>1, StepYields DEF Types
  <2>5. ASSUME NEW i \in Steps, i = k \/ pc[i] # "waiting"
        PROVE  First(i)' = First(i) /\ Later(i)' = Later(i)
    <3>1. View(i)' = View(i)
      BY <1>1, <2>5, ViewIsFixed, Zenon
    <3> QED
      BY <2>2, <3>1, Zenon DEF First, Later
  <2>6. ASSUME NEW i \in Steps, i # k
        PROVE  /\ pc'[i] \in Busy => i \notin plan'.unsupported /\ First(i)' = "ok" /\ Later(i)' = "ok"
               /\ pc'[i] = "done" => Explained(i)'
    <3>1. CASE pc[i] = "waiting"
      BY <2>3, <2>6, <3>1, Zenon DEF Busy
    <3>2. CASE pc[i] # "waiting"
      <4>1. First(i)' = First(i) /\ Later(i)' = Later(i) /\ reply'[i] = reply[i] /\ result'[i] = result[i] /\ pc'[i] = pc[i]
        BY <1>0, <1>1, <2>3, <2>4, <2>5, <2>6, <3>2, OtherReplies, Zenon
      <4>2. Explained(i)' <=> Explained(i)
        BY <2>2, <4>1, Zenon DEF Explained
      <4> QED
        BY <2>2, <4>1, <4>2, Zenon DEF SkipInv
    <3> QED
      BY <3>1, <3>2, Zenon
  <2>7. First(k)' = First(k) /\ Later(k)' = Later(k)
    BY <2>5, Zenon
  <2>8. CASE Prepare(k)
    <3>1. context[Lane(k)] = View(k)
      BY <2>8, StartsFromView, Zenon DEF Prepare
    <3>2. reply'[k] = "unsent"
      BY <1>0, <2>8, Zenon DEF Prepare, NextOfLane, RepliesMatch, Unanswered
    <3>3. \/ /\ k \in plan.unsupported \/ First(k) \in {"error", "ok"}
             /\ pc'[k] = "done" /\ result'[k] = "failed"
          \/ /\ k \notin plan.unsupported
             /\ First(k) = "missing" \/ (First(k) = "ok" /\ Later(k) = "missing")
             /\ pc'[k] = "done" /\ result'[k] = "skipped"
          \/ /\ k \notin plan.unsupported /\ First(k) = "ok" /\ Later(k) = "ok"
             /\ pc'[k] \in Busy
      BY <1>0, <2>8, <3>1, ZenonT(60) DEF Prepare, First, Later, FinishUnanswered, Finish, GoTo, Types, Busy
    <3>4. /\ pc'[k] \in Busy => k \notin plan'.unsupported /\ First(k)' = "ok" /\ Later(k)' = "ok"
          /\ pc'[k] = "done" => Explained(k)'
      BY <2>2, <2>7, <3>2, <3>3, Zenon DEF Explained, Busy
    <3> QED
      BY <2>6, <3>4, Zenon DEF SkipInv
  <2>9. CASE ~Prepare(k)
    <3>1. pc[k] \in Busy
      BY <1>1, <2>9, Zenon DEF StepProgress, LookForService, LockService, BuildService, PublishService, Exchange,
         LookForKeys, LockKeys, FetchKeys, Judge, Busy
    <3>2. k \notin plan.unsupported /\ First(k) = "ok" /\ Later(k) = "ok"
      BY <3>1, Zenon DEF SkipInv
    <3>3. pc'[k] = "done" => result'[k] # "skipped"
      BY <1>0, <1>1, <2>9, ZenonT(60) DEF StepProgress, LookForService, LockService, BuildService, PublishService, Exchange,
         LookForKeys, LockKeys, FetchKeys, Judge, FinishUnanswered, FinishAnswered, Finish, GoTo, Verdicts, Types
    <3>4. /\ k \notin plan'.unsupported /\ First(k)' = "ok" /\ Later(k)' = "ok"
          /\ pc'[k] = "done" => Explained(k)'
      BY <2>2, <2>7, <3>2, <3>3, Zenon DEF Explained
    <3> QED
      BY <2>6, <3>4, Zenon DEF SkipInv
  <2> QED
    BY <2>8, <2>9, Zenon
<1>2. ASSUME UNCHANGED <<plan, reply, minted, result>>,
             \A j \in Steps : (pc'[j] \in Busy => pc[j] \in Busy) /\ (pc'[j] = "done" => pc[j] = "done")
      PROVE  SkipInv'
  <2>1. \A i \in Steps : View(i)' = View(i)
    BY <1>2, Zenon DEF View, Record
  <2>2. \A i \in Steps : First(i)' = First(i) /\ Later(i)' = Later(i)
    BY <1>2, <2>1, Zenon DEF First, Later
  <2>3. \A i \in Steps : Explained(i)' <=> Explained(i)
    BY <1>2, <2>2, Zenon DEF Explained
  <2> QED
    BY <1>2, <2>2, <2>3, Zenon DEF SkipInv
<1>3. ASSUME NEW k \in Steps, StepRaises(k) PROVE SkipInv'
  BY <1>0, <1>2, <1>3, Zenon DEF StepRaises, GoTo, Types, Busy
<1>4. ASSUME NEW g \in Groups, StartGroup(g) \/ GroupEnds(g) PROVE SkipInv'
  BY <1>2, <1>4, Zenon DEF StartGroup, GroupEnds, stepVars
<1>5. ASSUME SubmitGroups \/ Join \/ UNCHANGED vars PROVE SkipInv'
  BY <1>2, <1>5, Zenon DEF SubmitGroups, Join, vars, stepVars
<1> QED
  BY <1>1, <1>3, <1>4, <1>5, Zenon DEF Next, GroupProgress, Rest

\* Whether a step is skipped for a missing predecessor, and that it is not
\* sent while a placeholder is unresolved, follows from what the steps before
\* it left, for any plan and any interleaving of any number of groups, with
\* the checks that may fail a step between its placeholders
\* (_execute_v1_step_inner, _execute_v1_psu_step_inner, _skipped_step).
THEOREM SkipsFollowThePlan == Spec => []SkipsAreExplained
<1>1. Init => TokenInv
  BY DEF Init, TokenInv, TokensIn, EmptyContext
<1>2. Init => SkipInv
  BY ZenonT(60) DEF Init, SkipInv, Busy
<1>3. SkipInv => SkipsAreExplained
  BY Zenon DEF SkipInv, SkipsAreExplained, Explained, First, Later
<1>4. TypeOK /\ LaneInv /\ TokenInv /\ GroupsAreIsolated /\ SkipInv /\ [Next]_vars => SkipInv'
  BY NextSkip, Zenon
<1> QED
  BY <1>1, <1>2, <1>3, <1>4, NextToken, GroupsIsolated, LaneInvariant, ExecutorTypeCorrect, PTL DEF Spec
=============================================================================
