----------------------------- MODULE DcrAdapter -----------------------------
(***************************************************************************)
(* The DCR execution adapter (conformance/dcr_execution.py): scenarios of  *)
(* cases of steps, run one after the other against a registration server.  *)
(*                                                                         *)
(* The server is external.  It may refuse any request, answer with a body  *)
(* that breaks the rules, or not answer at all, before or after it did     *)
(* what it was asked for.  A client is named by the case that registered   *)
(* it, a token and a management URL by their client.                       *)
(***************************************************************************)
EXTENDS Integers, Sequences, FiniteSets, Functions, TLC

CONSTANTS
    Contract,         \* the scenarios: [id, methods, cases]; a case is [id, methods, prerequisites, steps]
    Windows,          \* which scenarios of the plan are run: a bound
    Selections,       \* endpoint methods a participant may select
    Configurations,   \* [method, algorithm]: how the participant's client authenticates
    Discoveries,      \* what discovery may answer
    FileFaults        \* what may happen to the software statement

VARIABLES
    pc,
    selected, auth, plan,
    at,         \* the scenario, the case and the step that is next
    state,      \* DcrScenarioState
    discovery,  \* the validated metadata, and how often it was fetched
    statuses,   \* case_statuses
    results,
    transport,  \* the mTLS client
    statement,  \* the software statement file
    live,       \* clients the server knows
    unconfirmed,\* clients whose cleanup was tried and not confirmed
    last        \* the last registration or management request

vars == <<pc, selected, auth, plan, at, state, discovery, statuses, results, transport, statement, live,
          unconfirmed, last>>

setup == <<selected, auth, plan>>

None == "none"

Empty == "empty"

-----------------------------------------------------------------------------
(* The compiled plan.                                                      *)

\* The cases all of whose endpoints are selected, by scenario.
CompiledPlan(methods) ==
    LET gated == [i \in DOMAIN Contract |->
                    [Contract[i] EXCEPT !.cases =
                        SelectSeq(@, LAMBDA c : Contract[i].methods \union c.methods \subseteq methods)]] IN
    SelectSeq(gated, LAMBDA s : s.cases # <<>>)

\* The scenarios of it that are run.
PlanOf(methods, window) == SelectSeq(CompiledPlan(methods), LAMBDA s : s.id \in window)

CasePositions(p) == UNION {{<<i, j>> : j \in DOMAIN p[i].cases} : i \in DOMAIN p}

CaseIds(p) == {p[c[1]].cases[c[2]].id : c \in CasePositions(p)}

StepPositions(p) == UNION {{<<c, k>> : k \in DOMAIN p[c[1]].cases[c[2]].steps} : c \in CasePositions(p)}

\* What _validate_plan_boundary refuses.
BadPlan(p, methods) ==
    \/ Cardinality(CaseIds(p)) < Cardinality(CasePositions(p))
    \/ \E i \in DOMAIN p : \E c \in Range(p[i].cases) : ~(p[i].methods \union c.methods \subseteq methods)
    \/ /\ methods = {"POST", "GET", "PUT", "DELETE"}
       /\ <<Len(p), Cardinality(CasePositions(p)), Cardinality(StepPositions(p))>> # <<10, 34, 79>>

-----------------------------------------------------------------------------
(* What is asked of a contract.  DCR 3.4's keeps it, whatever the selected *)
(* methods leave of it.                                                    *)

Requests == {"post-registration", "request-client-credentials-token", "delete-client", "get-client", "put-client"}

ReadsResponse ==
    {"assert-status-200", "assert-status-201", "assert-status-400", "assert-status-401", "parse-registration-success",
     "validate-registration-response-34", "parse-retrieved-client", "validate-registration-error"}

MethodOf == [s \in {"get-client", "put-client", "delete-client"} |->
               CASE s = "get-client" -> "GET" [] s = "put-client" -> "PUT" [] OTHER -> "DELETE"]

IsList(s) == Len(s) \in Nat \ {0} /\ DOMAIN s = 1..Len(s)

\* A response is read after a request of the same case and a registration sent
\* after it was generated; a registration is parsed after it was posted, with no
\* other request in between, and not posted again.
SoundCase(c) ==
    /\ IsList(c.steps)
    /\ c.id \notin {None, Empty, "other"}
    /\ \A k \in DOMAIN c.steps :
         /\ c.steps[k] \in ReadsResponse => \E h \in 1..(k - 1) : c.steps[h] \in Requests
         /\ c.steps[k] \in {"post-registration", "put-client"} =>
                \E h \in 1..(k - 1) : c.steps[h] = "generate-registration-jose"
         /\ c.steps[k] = "parse-registration-success" =>
                /\ \E h \in 1..(k - 1) : /\ c.steps[h] = "post-registration"
                                        /\ \A m \in (h + 1)..(k - 1) : c.steps[m] \notin Requests
                /\ \A m \in DOMAIN c.steps : c.steps[m] = "post-registration" => m < k

\* One registration is parsed, and the token is not emptied once it was asked
\* for; a management request is declared in the methods that select its case.
SoundScenario(s) ==
    /\ IsList(s.cases)
    /\ \A j, m \in DOMAIN s.cases : \A k \in DOMAIN s.cases[j].steps, n \in DOMAIN s.cases[m].steps :
         LET one == s.cases[j].steps[k]
             other == s.cases[m].steps[n] IN
         /\ one = "parse-registration-success" /\ other = "parse-registration-success" => j = m /\ k = n
         /\ one = "set-empty-bearer-token" /\ other = "request-client-credentials-token" =>
                j < m \/ (j = m /\ k < n)
    /\ \A j \in DOMAIN s.cases :
         /\ SoundCase(s.cases[j])
         /\ \A k \in DOMAIN s.cases[j].steps :
                s.cases[j].steps[k] \in DOMAIN MethodOf => MethodOf[s.cases[j].steps[k]] \in s.methods \union s.cases[j].methods

\* Cases have ids of their own, and their prerequisites come before them.
SoundPlan(p) ==
    /\ IsList(p)
    /\ \A i \in DOMAIN p : SoundScenario(p[i])
    /\ \A i, m \in DOMAIN p : \A j \in DOMAIN p[i].cases, n \in DOMAIN p[m].cases :
         p[i].cases[j].id = p[m].cases[n].id => i = m /\ j = n
    /\ \A i \in DOMAIN p : \A j \in DOMAIN p[i].cases : \A needed \in p[i].cases[j].prerequisites :
         \E m \in 1..i : \E n \in DOMAIN p[m].cases :
             p[m].cases[n].id = needed /\ (m < i \/ n < j)

ASSUME ContractAssumption ==
    \A methods \in Selections, window \in Windows :
        /\ SoundPlan(PlanOf(methods, window))
        /\ \A i \in DOMAIN PlanOf(methods, window) :
             \E m \in DOMAIN CompiledPlan(methods) : PlanOf(methods, window)[i] = CompiledPlan(methods)[m]

-----------------------------------------------------------------------------
(* Where the run is.                                                       *)

Scenario == plan[at.scenario]

Case == Scenario.cases[at.case]

AtStep(definition) == pc = "step" /\ Case.steps[at.step] = definition

\* No answer: nothing is in it.
NoReply == 0

\* A registration body: whose it is, the management URL it names, whether it
\* has a secret, whether it keeps the rules of DCR 3.4, and an error.
Body(client, uri, secret, valid) == [client |-> client, uri |-> uri, secret |-> secret, valid |-> valid, error |-> FALSE]

NoBody == Body(None, None, FALSE, FALSE)

NoResponse == [status |-> NoReply, body |-> NoBody, case |-> None]

FreshState == [jose |-> None, client |-> None, secret |-> FALSE, token |-> None, url |-> None,
               response |-> NoResponse, deleted |-> FALSE]

Row(step, status) == [case |-> Case.id, step |-> step, status |-> status]

SkippedFrom(first) == [i \in 1..(Len(Case.steps) - first + 1) |-> Row(first + i - 1, "skipped")]

LeaveCase ==
    IF at.case < Len(Scenario.cases)
    THEN pc' = "case" /\ at' = [at EXCEPT !.case = @ + 1, !.step = 1]
    ELSE pc' = "cleanup" /\ UNCHANGED at

\* Mutant of Finish: the case goes on after a failed step.
FinishGoesOn(status, s) ==
    /\ state' = s
    /\ results' = Append(results, Row(at.step, status))
    /\ IF at.step < Len(Case.steps) THEN at' = [at EXCEPT !.step = @ + 1] /\ UNCHANGED <<pc, statuses>>
       ELSE statuses' = [statuses EXCEPT ![Case.id] = status] /\ LeaveCase
    /\ UNCHANGED <<transport, statement>>

\* The step ends with a status; after a failure the other steps of the case are
\* skipped.
Advance(status) ==
    IF status = "passed" /\ at.step < Len(Case.steps)
    THEN /\ results' = Append(results, Row(at.step, status))
         /\ at' = [at EXCEPT !.step = @ + 1]
         /\ UNCHANGED <<pc, statuses>>
    ELSE /\ results' = Append(results, Row(at.step, status)) \o SkippedFrom(at.step + 1)
         /\ statuses' = [statuses EXCEPT ![Case.id] = IF status = "passed" THEN "passed" ELSE "failed"]
         /\ LeaveCase

\* The step leaves state s.
Finish(status, s) == state' = s /\ Advance(status) /\ UNCHANGED <<transport, statement>>

Verdict(ok) == IF ok THEN "passed" ELSE "failed"

-----------------------------------------------------------------------------
(* Discovery, validated and cached.                                        *)

RequiredAlgorithm == IF auth.method = "private_key_jwt" THEN "PS256" ELSE "HS256"

SignsAssertions == auth.method \in {"private_key_jwt", "client_secret_jwt"}

NoDocument == [status |-> NoReply, endpoints |-> FALSE, methods |-> {}, algorithms |-> {}, jwks |-> FALSE]

\* What _require_discovery refuses; no answer has status 0.
BadDiscovery(document) ==
    \/ document.status # 200
    \/ ~document.endpoints
    \/ auth.method \notin document.methods
    \/ SignsAssertions /\ RequiredAlgorithm \notin document.algorithms
    \/ SignsAssertions /\ auth.algorithm \notin {None, RequiredAlgorithm}
    \/ auth.algorithm \notin {None} \union document.algorithms
    \/ ~document.jwks

\* The step goes on with the cached metadata, or fetches it.
Documents == IF discovery.found THEN {discovery.document} ELSE Discoveries

Discovered(document) ==
    discovery' = IF discovery.found THEN discovery
                 ELSE [found |-> ~BadDiscovery(document),
                       document |-> IF BadDiscovery(document) THEN NoDocument ELSE document,
                       fetches |-> discovery.fetches + 1]

Failed(document) == ~discovery.found /\ BadDiscovery(document)

-----------------------------------------------------------------------------
(* The server (external).                                                  *)

ErrorBodies == {NoBody, [NoBody EXCEPT !.error = TRUE]}

\* What a server may say of a client it registered.
BodiesOf(client) ==
    {Body(client, uri, secret, TRUE) : uri \in {None, client, "other"}, secret \in BOOLEAN}
        \union {Body(client, None, TRUE, FALSE), NoBody}

\* A case registers one client at most.
NewClient == Case.id

\* An answer, and whether the server did what it was asked for.
Reply(status, body, done) == [status |-> status, body |-> body, done |-> done]

RegistrationReplies ==
    {Reply(201, body, TRUE) : body \in BodiesOf(NewClient)}
        \union {Reply(400, body, FALSE) : body \in ErrorBodies}
        \union {Reply(NoReply, NoBody, done) : done \in BOOLEAN}

TokenReplies == {Reply(200, NoBody, done) : done \in BOOLEAN} \union {Reply(401, NoBody, FALSE), Reply(NoReply, NoBody, FALSE)}

ManagementReplies(client) ==
    {Reply(200, body, TRUE) : body \in {Body(client, None, TRUE, TRUE), Body("other", None, TRUE, TRUE), NoBody}}
        \union {Reply(401, NoBody, FALSE), Reply(NoReply, NoBody, FALSE)}

DeleteReplies == {Reply(204, NoBody, TRUE), Reply(401, NoBody, FALSE)} \union {Reply(NoReply, NoBody, done) : done \in BOOLEAN}

\* send_json raises: no answer.
Raises(reply) == reply.status = NoReply

Response(reply) == [status |-> reply.status, body |-> reply.body, case |-> Case.id]

Request(method, client, token, jose) ==
    [method |-> method, scenario |-> Scenario.id, case |-> Case.id, client |-> client, token |-> token, jose |-> jose]

NoRequest == [method |-> None, scenario |-> None, case |-> None, client |-> None, token |-> None, jose |-> None]

\* A DELETE changes what the server knows.
Deletes(client, reply) == live' = IF reply.done THEN live \ {client} ELSE live

-----------------------------------------------------------------------------
(* The run.                                                                *)

Init ==
    /\ pc = "start"
    /\ selected \in Selections
    /\ auth \in Configurations
    /\ \E window \in Windows : plan = PlanOf(selected, window)
    /\ at = [scenario |-> 1, case |-> 1, step |-> 1]
    /\ state = FreshState
    /\ discovery = [found |-> FALSE, document |-> NoDocument, fetches |-> 0]
    /\ statuses = [c \in CaseIds(plan) |-> None]
    /\ results = <<>>
    /\ transport = None
    /\ statement = "good"
    /\ live = {} /\ unconfirmed = {}
    /\ last = NoRequest

server == <<live, unconfirmed, last>>

\* run: the mTLS client is built, or its files cannot be loaded.
Start ==
    /\ pc = "start" /\ ~BadPlan(CompiledPlan(selected), selected)
    /\ pc' = "case" /\ transport' = "open"
    /\ UNCHANGED <<setup, at, state, discovery, statuses, results, statement, server>>

StartFails ==
    /\ pc = "start"
    /\ pc' = "raised"
    /\ UNCHANGED <<setup, at, state, discovery, statuses, results, transport, statement, server>>

\* External: the file is lost or changed while the run reads it again and again.
StatementChanges(fault) ==
    /\ pc \in {"case", "step"} /\ statement = "good"
    /\ statement' = fault
    /\ UNCHANGED <<setup, pc, at, state, discovery, statuses, results, transport, server>>

\* Mutant of Unmet: one prerequisite that passed is enough.
UnmetAll(c) == c.prerequisites # {} /\ \A p \in c.prerequisites : p \notin DOMAIN statuses \/ statuses[p] # "passed"

\* A prerequisite did not pass.
Unmet(c) == \E p \in c.prerequisites : p \notin DOMAIN statuses \/ statuses[p] # "passed"

SkipCase ==
    /\ pc = "case" /\ Unmet(Case)
    /\ results' = results \o SkippedFrom(1)
    /\ statuses' = [statuses EXCEPT ![Case.id] = "failed"]
    /\ LeaveCase
    /\ UNCHANGED <<setup, state, discovery, transport, statement, server>>

EnterCase ==
    /\ pc = "case" /\ ~Unmet(Case)
    /\ pc' = "step"
    /\ UNCHANGED <<setup, at, state, discovery, statuses, results, transport, statement, server>>

-----------------------------------------------------------------------------
(* The steps.                                                              *)

ValidateDiscovery ==
    /\ AtStep("validate-registration-endpoint")
    /\ \E document \in Documents :
         /\ Discovered(document)
         /\ Finish(Verdict(~Failed(document)), state)
    /\ UNCHANGED <<setup, server>>

\* _read_ssa, _load_signing_key: what is signed is read anew for every request.
CanRead == statement = "good"

\* build_registration_jose
CanSign(document) == ~Failed(document) /\ CanRead

GenerateRegistration ==
    /\ AtStep("generate-registration-jose")
    /\ statement # "garbled"
    /\ \E document \in Documents :
         /\ Discovered(document)
         /\ Finish(Verdict(CanSign(document)), IF CanSign(document) THEN [state EXCEPT !.jose = Case.id] ELSE state)
    /\ UNCHANGED <<setup, server>>

\* A statement that is not UTF-8 raises an error no step expects.
GenerateRaises ==
    /\ AtStep("generate-registration-jose")
    /\ discovery.found /\ statement = "garbled"
    /\ pc' = "raised" /\ transport' = "closed"
    /\ UNCHANGED <<setup, at, state, discovery, statuses, results, statement, server>>

PostRegistration ==
    /\ AtStep("post-registration")
    /\ IF state.jose = None THEN Finish("failed", state) /\ UNCHANGED <<live, last>>
       ELSE /\ \E reply \in RegistrationReplies :
                 /\ Finish(Verdict(~Raises(reply)),
                           IF Raises(reply) THEN state ELSE [state EXCEPT !.response = Response(reply)])
                 /\ live' = IF reply.done THEN live \union {NewClient} ELSE live
            /\ last' = Request("POST", None, None, state.jose)
    /\ UNCHANGED <<setup, discovery, unconfirmed>>

\* What _validate_registration_response refuses: a rule of DCR 3.4 or the signed
\* request is not kept, or the management URL is not the one of this client.
BadRegistration(body) == body.client = None \/ ~body.valid \/ body.uri \notin {None, body.client}

ParseRegistration ==
    /\ AtStep("parse-registration-success")
    /\ LET body == state.response.body IN
       IF BadRegistration(body) THEN Finish("failed", state)
       ELSE Finish("passed", [state EXCEPT !.client = body.client, !.secret = body.secret,
                                           !.url = IF body.uri = None THEN body.client ELSE body.uri])
    /\ UNCHANGED <<setup, discovery, server>>

\* _token_request needs a client, and the methods with a secret need a secret.
CanAuthenticate ==
    /\ state.client # None
    /\ auth.method \in {"client_secret_jwt", "client_secret_basic"} => state.secret

RequestToken ==
    /\ AtStep("request-client-credentials-token")
    /\ IF ~CanAuthenticate THEN Finish("failed", state)
       ELSE \E reply \in TokenReplies :
              IF Raises(reply) THEN Finish("failed", state)
              ELSE Finish(Verdict(reply.status = 200 /\ reply.done),
                          [state EXCEPT !.response = Response(reply), !.token = IF reply.done THEN state.client ELSE @])
    /\ UNCHANGED <<setup, discovery, server>>

\* _management_request needs a URL and a token, which may be empty.
CanManage == state.url # None /\ state.token # None

DeleteClient ==
    /\ AtStep("delete-client")
    /\ IF ~CanManage THEN Finish("failed", state) /\ UNCHANGED <<live, last>>
       ELSE /\ \E reply \in DeleteReplies :
                 /\ Finish(Verdict(reply.status = 204),
                           IF Raises(reply) THEN state
                           ELSE [state EXCEPT !.response = Response(reply), !.deleted = @ \/ reply.status = 204])
                 /\ Deletes(state.url, reply)
            /\ last' = Request("DELETE", state.url, state.token, None)
    /\ UNCHANGED <<setup, discovery, unconfirmed>>

GetClient ==
    /\ AtStep("get-client")
    /\ IF ~CanManage THEN Finish("failed", state) /\ UNCHANGED last
       ELSE /\ \E reply \in ManagementReplies(state.client) :
                 Finish(Verdict(~Raises(reply)),
                        IF Raises(reply) THEN state ELSE [state EXCEPT !.response = Response(reply)])
            /\ last' = Request("GET", state.url, state.token, None)
    /\ UNCHANGED <<setup, discovery, live, unconfirmed>>

\* The answer to a PUT is validated at once when its status is 200.
PutClient ==
    /\ AtStep("put-client")
    /\ IF ~CanManage \/ state.jose = None THEN Finish("failed", state) /\ UNCHANGED last
       ELSE /\ \E reply \in ManagementReplies(state.client) :
                 Finish(Verdict(~Raises(reply) /\ (reply.status = 200 => ~BadRegistration(reply.body))),
                        IF Raises(reply) THEN state ELSE [state EXCEPT !.response = Response(reply)])
            /\ last' = Request("PUT", state.url, state.token, state.jose)
    /\ UNCHANGED <<setup, discovery, live, unconfirmed>>

Expected == [s \in {"assert-status-200", "assert-status-201", "assert-status-400", "assert-status-401"} |->
               CASE s = "assert-status-200" -> 200 [] s = "assert-status-201" -> 201
                 [] s = "assert-status-400" -> 400 [] OTHER -> 401]

AssertStatus ==
    /\ pc = "step" /\ Case.steps[at.step] \in DOMAIN Expected
    /\ Finish(Verdict(state.response.status = Expected[Case.steps[at.step]]), state)
    /\ UNCHANGED <<setup, discovery, server>>

ValidateResponse ==
    /\ AtStep("validate-registration-response-34")
    /\ Finish(Verdict(~BadRegistration(state.response.body)), state)
    /\ UNCHANGED <<setup, discovery, server>>

ParseRetrieved ==
    /\ AtStep("parse-retrieved-client")
    /\ Finish(Verdict(state.response.body.client = state.client), state)
    /\ UNCHANGED <<setup, discovery, server>>

SetEmptyBearer ==
    /\ AtStep("set-empty-bearer-token")
    /\ Finish("passed", [state EXCEPT !.token = Empty])
    /\ UNCHANGED <<setup, discovery, server>>

ValidateError ==
    /\ AtStep("validate-registration-error")
    /\ LET body == state.response.body IN Finish(Verdict(body.error /\ body.client = None), state)
    /\ UNCHANGED <<setup, discovery, server>>

-----------------------------------------------------------------------------
(* The end of a scenario.                                                  *)

\* Mutant of NextScenario: the next scenario goes on with the state of this one.
NextScenarioKeepsState ==
    IF at.scenario < Len(plan)
    THEN /\ pc' = "case" /\ at' = [scenario |-> at.scenario + 1, case |-> 1, step |-> 1]
         /\ UNCHANGED <<state, transport>>
    ELSE pc' = "done" /\ transport' = "closed" /\ UNCHANGED <<at, state>>

NextScenario ==
    IF at.scenario < Len(plan)
    THEN /\ pc' = "case" /\ at' = [scenario |-> at.scenario + 1, case |-> 1, step |-> 1]
         /\ state' = FreshState
         /\ UNCHANGED transport
    ELSE pc' = "done" /\ transport' = "closed" /\ UNCHANGED <<at, state>>

\* Mutant of CanCleanUp: a scenario that failed is left as it is.
CanCleanUpSuccess ==
    /\ "DELETE" \in selected /\ ~state.deleted /\ state.url # None /\ state.token \notin {None, Empty}
    /\ statuses[Case.id] = "passed"

CanCleanUp == "DELETE" \in selected /\ ~state.deleted /\ state.url # None /\ state.token \notin {None, Empty}

\* Whatever the server answers, the scenario's results stay.
Cleanup ==
    /\ pc = "cleanup" /\ CanCleanUp
    /\ \E reply \in DeleteReplies :
         /\ Deletes(state.url, reply)
         /\ unconfirmed' = IF reply.status = 204 THEN unconfirmed ELSE unconfirmed \union {state.url}
    /\ last' = Request("DELETE", state.url, state.token, None)
    /\ NextScenario
    /\ UNCHANGED <<setup, discovery, statuses, results, statement>>

NoCleanup ==
    /\ pc = "cleanup" /\ ~CanCleanUp
    /\ NextScenario
    /\ UNCHANGED <<setup, discovery, statuses, results, statement, server>>

Work ==
    \/ Start \/ StartFails
    \/ SkipCase \/ EnterCase
    \/ ValidateDiscovery \/ GenerateRegistration \/ GenerateRaises \/ PostRegistration \/ ParseRegistration
    \/ RequestToken \/ DeleteClient \/ GetClient \/ PutClient
    \/ AssertStatus \/ ValidateResponse \/ ParseRetrieved \/ SetEmptyBearer \/ ValidateError
    \/ Cleanup \/ NoCleanup

Ended == pc \in {"done", "raised"} /\ UNCHANGED vars

Next == Work \/ (\E fault \in FileFaults : StatementChanges(fault)) \/ Ended

Spec == Init /\ [][Next]_vars

-----------------------------------------------------------------------------
(* Properties.                                                             *)

Passed(c, step) == [case |-> c, step |-> step, status |-> "passed"] \in Range(results)

AllPassed(c) == \A k \in DOMAIN c.steps : Passed(c.id, k)

\* The first of two case positions is reached first.
Earlier(i, j, m, n) == i < m \/ (i = m /\ j < n)

\* The steps of the scenarios that are over.
ReportedSteps ==
    UNION {UNION {{<<plan[i].cases[j].id, k>> : k \in DOMAIN plan[i].cases[j].steps} : j \in DOMAIN plan[i].cases} :
             i \in 1..at.scenario}

\* The rows of a report are in the order of the plan.
InPlanOrder(one, other) ==
    \E i, m \in DOMAIN plan : \E j \in DOMAIN plan[i].cases, n \in DOMAIN plan[m].cases :
        /\ plan[i].cases[j].id = one.case /\ plan[m].cases[n].id = other.case
        /\ Earlier(i, j, m, n) \/ (i = m /\ j = n /\ one.step < other.step)

\* A row of case c tells that its step was tried exactly when every case that c
\* needs passed and so did the earlier steps of c.
TriedWhenDue(row, c) ==
    row.status # "skipped" <=>
        /\ \A i \in DOMAIN plan : \A j \in DOMAIN plan[i].cases :
             plan[i].cases[j].id \in c.prerequisites => AllPassed(plan[i].cases[j])
        /\ \A earlier \in 1..(row.step - 1) : Passed(c.id, earlier)

\* _run_scenarios and _run_case: the report has the steps of the scenarios that
\* are over, in the order of the plan and each once, and a step was tried exactly
\* when every prerequisite case passed and so did the earlier steps of its case.
DependentsAreSkipped == pc \in {"cleanup", "done"} =>
    /\ \A i \in 1..(Len(results) - 1) : InPlanOrder(results[i], results[i + 1])
    /\ {<<row.case, row.step>> : row \in Range(results)} = ReportedSteps
    /\ pc = "done" => at.scenario = Len(plan)
    /\ \A row \in Range(results) : \A i \in DOMAIN plan : \A j \in DOMAIN plan[i].cases :
         plan[i].cases[j].id = row.case => TriedWhenDue(row, plan[i].cases[j])

\* A client is managed by requests of the scenario that registered it, with its
\* own token or with none, and with methods the participant selected; that
\* holds for the cleanup, too.
ManagementStaysInTheScenario ==
    last.method \notin {None, "POST"} =>
        /\ \E i \in DOMAIN plan : plan[i].id = last.scenario /\ \E c \in Range(plan[i].cases) : c.id = last.client
        /\ last.token \in {Empty, last.client}
        /\ last.method \in selected

\* last_response and signed_registration_jose outlive their case, yet a check
\* reads a response to a request of its own case, and a request carries the
\* registration generated in its own case.
NothingIsStale ==
    /\ pc = "step" /\ Case.steps[at.step] \in ReadsResponse => state.response.case = Case.id
    /\ last.method \in {"POST", "PUT"} => last.jose = last.case

FinishedScenarios == IF pc = "done" THEN DOMAIN plan ELSE 1..(at.scenario - 1)

RowPassed(c, definition) == \E step \in DOMAIN c.steps : c.steps[step] = definition /\ Passed(c.id, step)

\* _best_effort_cleanup: once a scenario is over, a client of it that the server
\* still has is one the adapter could not delete: DELETE is not selected, the
\* client was never captured, no token was ever issued for it, or the cleanup
\* asked for the deletion (again) and was not told that it is done.
LeftoversAreExplained ==
    \A i \in FinishedScenarios : \A c \in Range(plan[i].cases) :
        c.id \in live =>
            \/ "DELETE" \notin selected
            \/ c.id \in unconfirmed
            \/ ~RowPassed(c, "parse-registration-success")
            \/ ~\E other \in Range(plan[i].cases) : RowPassed(other, "request-client-credentials-token")

=============================================================================
