---------------------------- MODULE PlanManifest ----------------------------
(***************************************************************************)
(* A compiled plan becomes the steps of a run, twice: start_run lists the  *)
(* steps the user will see (api/run_lifecycle.py), and the worker builds   *)
(* the manifest that is executed (executor.py, _compiled_plan_to_manifest).*)
(* Neither is one step per request of the plan: the tokens that requests   *)
(* need are acquired by steps of their own, the two AIS templates become   *)
(* steps for each permission profile, and a consent that a later request   *)
(* relies on is followed by the PSU's authorisation and the exchange of    *)
(* its code.                                                               *)
(*                                                                         *)
(* Step and token ids are pairs: what the step or token is, and of what.   *)
(* Plans are compiled from an excerpt of the shipped catalogues that keeps *)
(* one family of each flow.                                                *)
(***************************************************************************)
EXTENDS Naturals, SequencesExt

VARIABLES cases,    \* test_cases of the compiled plan
          given,    \* runtime input or discovery URL -> what the plan says of it
          pc,       \* "launch", "begin", "convert", "done" or "failed"
          todo,     \* cases that are not converted yet
          drawn,    \* number of random identifiers drawn so far
          steps,    \* steps of the manifest
          rows      \* planned_steps of the run record

vars == <<cases, given, pc, todo, drawn, steps, rows>>

None == <<"none", "none">>

RuntimeInputs == {"resourceBaseUrl", "consentedAccountId", "debtorAccount"}

\* Of the security environment: it is there and a https URL, or it is not.
DiscoveryUrl == "discoveryUrl"

Values == {"absent", "empty", "blank", "text", "number"}

-----------------------------------------------------------------------------
(* The catalogues.                                                         *)

RequestOf(id) == <<"request", id>>
ClientToken(api) == <<"client-credentials", api>>
AccountToken(profile) == <<"account-access", profile>>
PaymentToken(flow) == <<"payment-access", flow>>

\* A case with its one request step.  The path, the body and the headers are
\* reduced to what they read: the responses of other steps, runtime inputs;
\* signed is response_signature_required.
Case(id, role, mandatory, dependency, token, reads, path, body) ==
    [id |-> RequestOf(id), role |-> role, mandatory |-> mandatory, dependency |-> dependency,
     requires |-> token, produces |-> None, reads |-> {RequestOf(r) : r \in reads},
     discovery |-> FALSE, path |-> path, body |-> body, inputs |-> {"resourceBaseUrl"} \union path \union body,
     header |-> TRUE, playback |-> FALSE, signed |-> FALSE, psu |-> None, authorised |-> None]

AisCase(id, role, mandatory, dependency, token, path) == Case(id, role, mandatory, dependency, token, {}, path, {})

AisSetup ==
    <<[AisCase("ais-discovery", "setup", TRUE, 0, None, {})
       EXCEPT !.inputs = {}, !.discovery = TRUE, !.header = FALSE],
      AisCase("ais-consent", "consent", TRUE, 1, ClientToken("ais"), {}),
      [AisCase("ais-token", "token", TRUE, 2, None, {}) EXCEPT !.inputs = {}, !.header = FALSE]>>

AisCases ==
    AisSetup \o
    <<AisCase("account", "resource", TRUE, 3, AccountToken("basic"), {"consentedAccountId"}),
      AisCase("account-detail", "resource", TRUE, 3, AccountToken("detail"), {"consentedAccountId"}),
      AisCase("account-401", "security", FALSE, 3, None, {"consentedAccountId"}),
      [AisCase("account-playback", "security", FALSE, 3, AccountToken("detail"), {"consentedAccountId"})
       EXCEPT !.playback = TRUE],
      AisCase("balances", "resource", TRUE, 3, AccountToken("basic"), {"consentedAccountId"})>>

CbpiiCases ==
    <<Case("cbpii-consent", "consent", TRUE, 0, ClientToken("cbpii"), {}, {}, {"debtorAccount"}),
      Case("cbpii-get", "resource", TRUE, 1, ClientToken("cbpii"), {"cbpii-consent"}, {}, {}),
      Case("cbpii-funds", "resource", TRUE, 1, PaymentToken("cbpii-funds"), {"cbpii-consent"}, {}, {}),
      Case("cbpii-delete", "resource", TRUE, 1, ClientToken("cbpii"), {"cbpii-consent"}, {}, {}),
      Case("cbpii-delete-invalid", "resource", TRUE, 0, ClientToken("cbpii"), {}, {}, {})>>

\* psu_authorization of a consent: the flow whose token the exchange records.
PisConsent(id, flow) ==
    [Case(id, "consent", TRUE, 0, ClientToken("pis"), {}, {}, {"debtorAccount"})
     EXCEPT !.psu = <<id, flow>>, !.playback = TRUE, !.signed = (flow = "dp")]

\* A request that must not be sent before the PSU authorised the consent.
PisDependent(id, dependency, token, reads, consent) ==
    [Case(id, "resource", TRUE, dependency, token, reads, {}, {})
     EXCEPT !.authorised = RequestOf(consent), !.signed = TRUE]

PisCases ==
    <<PisConsent("dp-consent", "dp"),
      Case("dp-no-signature", "security", TRUE, 0, ClientToken("pis"), {}, {}, {"debtorAccount"}),
      PisDependent("dp-get", 1, ClientToken("pis"), {"dp-consent"}, "dp-consent"),
      PisDependent("dp-funds", 3, PaymentToken("dp"), {"dp-consent"}, "dp-consent"),
      PisDependent("dp-create", 3, PaymentToken("dp"), {"dp-consent"}, "dp-consent"),
      PisDependent("dp-read", 5, ClientToken("pis"), {"dp-create"}, "dp-consent"),
      PisConsent("sp-consent", "sp"),
      PisDependent("sp-get", 7, ClientToken("pis"), {"sp-consent"}, "sp-consent"),
      PisConsent("sp-consent-again", "sp"),
      PisDependent("sp-get-again", 9, ClientToken("pis"), {"sp-consent-again"}, "sp-consent-again"),
      PisDependent("sp-create", 10, PaymentToken("sp"), {"sp-consent-again"}, "sp-consent-again")>>

VrpCase(id, dependency, token, reads, body) ==
    [Case(id, "resource", TRUE, dependency, token, reads, {}, body) EXCEPT !.signed = TRUE]

VrpCases ==
    <<VrpCase("vrp-consent", 0, ClientToken("vrp"), {}, {"debtorAccount"}),
      VrpCase("vrp-create", 1, PaymentToken("vrp-consent"), {"vrp-consent"}, {"debtorAccount"}),
      VrpCase("vrp-get", 1, ClientToken("vrp"), {"vrp-consent"}, {}),
      VrpCase("vrp-funds", 1, PaymentToken("vrp-consent"), {"vrp-consent"}, {}),
      VrpCase("vrp-read", 2, ClientToken("vrp"), {"vrp-create"}, {})>>

\* Cases that one implemented endpoint, with or without its optional cases,
\* makes applicable.
Catalogues ==
    <<[cases |-> AisCases, groups |-> {{4, 5}, {4, 5, 6}, {4, 5, 7}, {8}}],
      [cases |-> CbpiiCases, groups |-> {{1}, {2}, {3}, {4}, {5}}],
      [cases |-> PisCases, groups |-> {{1, 2}, {3}, {4}, {5}, {6}, {7, 9}, {8, 10}, {11}}],
      [cases |-> VrpCases, groups |-> {{1}, {2}, {3}, {4}, {5}}]>>

\* _ordered_case_ids, for cases that depend on at most one other.
OrderedCases(list, selected) ==
    LET chain[k \in 0 .. Len(list)] ==
            IF k = 0 THEN <<>> ELSE Append(chain[list[k].dependency], k)
        visit(ordered, k) ==
            IF k \in selected THEN ordered \o SelectSeq(chain[k], LAMBDA d : ~Contains(ordered, d)) ELSE ordered
        order == FoldLeft(visit, <<>>, [k \in 1 .. Len(list) |-> k])
    IN  [i \in DOMAIN order |-> list[order[i]]]

PlansOf(api) ==
    LET c == Catalogues[api] IN {OrderedCases(c.cases, UNION g) : g \in (SUBSET c.groups) \ {{}}}

\* Plans of one area, and of AIS with another: a merged plan has the cases of
\* its areas in turn (_merge_compiled_test_cases).
CompiledPlans ==
    UNION {PlansOf(api) : api \in DOMAIN Catalogues}
    \union {OrderedCases(AisCases, 4 .. 8) \o p : p \in UNION {PlansOf(api) : api \in 2 .. Len(Catalogues)}}

\* _validate_runtime_input_value: a string or url is text that is not blank.
ValidInput(value) == value = "text"

\* The compiler refuses a plan whose required inputs are absent or not valid, and
\* _compiled_plan_issues one that validates response signatures without a
\* discovery URL.
AcceptedInputs(plan) ==
    {g \in [RuntimeInputs \union {DiscoveryUrl} -> Values] :
        /\ \A c \in ToSet(plan) : \A i \in c.inputs : g[i] # "absent" /\ ValidInput(g[i])
        /\ g[DiscoveryUrl] \in {"absent", "text"}
        /\ (\E c \in ToSet(plan) : c.signed) => g[DiscoveryUrl] = "text"}

-----------------------------------------------------------------------------
(* Which steps a plan needs.                                               *)

AisConsent == RequestOf("ais-consent")
AisToken == RequestOf("ais-token")
CbpiiConsent == RequestOf("cbpii-consent")
CbpiiAuthorised == {RequestOf("cbpii-get"), RequestOf("cbpii-funds")}
VrpConsents == {RequestOf("vrp-consent")}

\* _CATALOGUE_TOKEN_SCOPES: the tokens the client can ask for by itself.
ScopedTokens == {ClientToken(api) : api \in {"ais", "cbpii", "pis", "vrp"}}

RequiredTokens == {c.requires : c \in ToSet(cases)} \ {None}

AisProfiles == SelectSeq(<<"basic", "detail">>, LAMBDA p : AccountToken(p) \in RequiredTokens)

\* Mutant of RequiresPisAuthorization: only for requests that present its token.
RequiresPisAuthorizationToken(c) ==
    \E d \in ToSet(cases) : d.authorised = c.id /\ d.requires = PaymentToken(c.psu[2])

RequiresPisAuthorization(c) == \E d \in ToSet(cases) : d.authorised = c.id

RequiresVrpAuthorization(c) == PaymentToken(c.id[2]) \in RequiredTokens

RequiresCbpiiAuthorization == \E d \in ToSet(cases) : d.id \in CbpiiAuthorised

-----------------------------------------------------------------------------
(* The steps.  reads holds the step ids whose responses a step refers to,  *)
(* token the token it presents, makes the token it records, sent and       *)
(* expects the interaction id of the request and of the playback check.    *)

Step(id, kind, phase, mandatory, reads) ==
    [id |-> id, kind |-> kind, phase |-> phase, mandatory |-> mandatory, reads |-> reads,
     token |-> None, makes |-> None, sent |-> 0, expects |-> 0]

ClientTokenStep(token) ==
    [Step(<<"setup-token", token[2]>>, "http", "setup", TRUE, {}) EXCEPT !.makes = token]

PsuStep(consent, phase) == Step(<<"authorise", consent[2]>>, "psu", phase, TRUE, {consent})

ExchangeStep(consent, token, phase) ==
    [Step(<<"exchange", consent[2]>>, "http", phase, TRUE, {<<"authorise", consent[2]>>}) EXCEPT !.makes = token]

Authorise(consent, token) == <<PsuStep(consent, "execution"), ExchangeStep(consent, token, "execution")>>

SyntheticSetupSteps ==
    LET missing(t) == t \notin {c.produces : c \in ToSet(cases)} /\ t \in ScopedTokens
        add(tokens, c) == IF c.requires = None \/ Contains(tokens, c.requires) THEN tokens ELSE Append(tokens, c.requires)
        needed == SelectSeq(FoldLeft(add, <<>>, cases), missing)
    IN  [i \in DOMAIN needed |-> ClientTokenStep(needed[i])]

SyntheticInlineSteps(c) ==
    IF c.id = CbpiiConsent
    THEN IF RequiresCbpiiAuthorization THEN Authorise(c.id, PaymentToken("cbpii-funds")) ELSE <<>>
    ELSE IF c.psu # None /\ RequiresPisAuthorization(c) THEN Authorise(c.id, PaymentToken(c.psu[2]))
    ELSE IF c.id \in VrpConsents /\ RequiresVrpAuthorization(c) THEN Authorise(c.id, PaymentToken(c.id[2]))
    ELSE <<>>

ProfileConsent(profile) == RequestOf(profile)

StepPhase(c) == IF c.id = AisConsent \/ c.role \in {"setup", "security", "token"} THEN "setup" ELSE "execution"

-----------------------------------------------------------------------------
(* The rows of the run record (_compiled_plan_steps_snapshot).             *)

Row(s) == [id |-> s.id, kind |-> s.kind, phase |-> s.phase, mandatory |-> s.mandatory]

Rows(list) == [i \in DOMAIN list |-> Row(list[i])]

NewRow(id, kind) == [id |-> id, kind |-> kind, phase |-> "setup", mandatory |-> TRUE]

\* The table of run_lifecycle.py, a copy of the executor's.
SnapshotProfiles == SelectSeq(<<"basic", "detail">>, LAMBDA p : AccountToken(p) \in RequiredTokens)

ReplacementRows(c) ==
    IF c.id = AisConsent
    THEN FlattenSeq([i \in DOMAIN SnapshotProfiles |->
             <<NewRow(ProfileConsent(SnapshotProfiles[i]), "http"), NewRow(<<"authorise", SnapshotProfiles[i]>>, "psu")>>])
    ELSE IF c.id = AisToken
    THEN [i \in DOMAIN SnapshotProfiles |-> NewRow(<<"exchange", SnapshotProfiles[i]>>, "http")]
    ELSE <<>>

\* Mutant of CaseRows: no rows for the steps inserted after a consent.
CaseRowsPlain(c) ==
    LET replaced == ReplacementRows(c) IN
    IF replaced # <<>> THEN replaced
    ELSE <<[id |-> c.id, kind |-> "http", phase |-> StepPhase(c), mandatory |-> c.mandatory]>>

CaseRows(c) ==
    LET replaced == ReplacementRows(c)
        phase == IF c.role \in {"setup", "security", "token"} THEN "setup" ELSE "execution"
    IN  IF replaced # <<>> THEN replaced
        ELSE <<[id |-> c.id, kind |-> "http", phase |-> phase, mandatory |-> c.mandatory]>>
             \o Rows(SyntheticInlineSteps(c))

\* start_run.
Launch ==
    /\ pc = "launch"
    /\ rows' = Rows(SyntheticSetupSteps) \o FlattenSeq([i \in DOMAIN cases |-> CaseRows(cases[i])])
    /\ pc' = "begin"
    /\ UNCHANGED <<cases, given, todo, drawn, steps>>

-----------------------------------------------------------------------------
(* The manifest (_compiled_plan_to_manifest), request by request.          *)

\* _required_runtime_string, and a ${runtime.*} placeholder of a body.
Text(i) == given[i] = "text"

\* A {Variable} of a path takes any string that is not empty.
PathText(i) == given[i] \in {"text", "blank"}

\* No ValueError while the url, the body and the assertions are built.
Resolvable(c) ==
    /\ IF c.discovery THEN Text(DiscoveryUrl) ELSE Text("resourceBaseUrl") /\ \A i \in c.path : PathText(i)
    /\ \A i \in c.body : Text(i)
    /\ c.playback => c.header

\* The playback check expects the identifier that was drawn for the header.
RequestStep(c, uuid) ==
    [Step(c.id, "http", StepPhase(c), c.mandatory, c.reads)
     EXCEPT !.token = c.requires, !.makes = c.produces, !.sent = IF c.header THEN uuid ELSE 0,
            !.expects = IF c.playback THEN uuid ELSE 0]

ProfileSteps(c, i) ==
    LET profile == AisProfiles[i] IN
    <<[Step(ProfileConsent(profile), "http", "setup", TRUE, {}) EXCEPT !.token = c.requires, !.sent = drawn + i],
      PsuStep(ProfileConsent(profile), "setup")>>

ProfileExchange(profile) == ExchangeStep(ProfileConsent(profile), AccountToken(profile), "setup")

Begin ==
    /\ pc = "begin"
    /\ steps' = SyntheticSetupSteps
    /\ pc' = "convert"
    /\ UNCHANGED <<cases, given, todo, drawn, rows>>

Converting(c) == pc = "convert" /\ todo # <<>> /\ c = Head(todo)

\* The steps that stand for the request, or the ValueError that fails the run
\* before any of its steps is executed.
Emit(resolvable, new, uuids) ==
    /\ pc' = IF resolvable THEN pc ELSE "failed"
    /\ steps' = IF resolvable THEN steps \o new ELSE <<>>
    /\ drawn' = drawn + uuids
    /\ todo' = Tail(todo)
    /\ UNCHANGED <<cases, given, rows>>

ConvertConsentTemplate(c) ==
    /\ Converting(c) /\ c.id = AisConsent
    /\ Emit(AisProfiles # <<>> => Resolvable(c),
            FlattenSeq([i \in DOMAIN AisProfiles |-> ProfileSteps(c, i)]), Len(AisProfiles))

ConvertTokenTemplate(c) ==
    /\ Converting(c) /\ c.id = AisToken
    /\ Emit(TRUE, [i \in DOMAIN AisProfiles |-> ProfileExchange(AisProfiles[i])], 0)

ConvertRequest(c) ==
    /\ Converting(c) /\ c.id \notin {AisConsent, AisToken}
    /\ Emit(Resolvable(c), <<RequestStep(c, drawn + 1)>> \o SyntheticInlineSteps(c), 1)

Converted ==
    /\ pc = "convert" /\ todo = <<>>
    /\ pc' = "done"
    /\ UNCHANGED <<cases, given, todo, drawn, steps, rows>>

Over == pc \in {"done", "failed"} /\ UNCHANGED vars

Init ==
    /\ cases \in CompiledPlans /\ given \in AcceptedInputs(cases)
    /\ pc = "launch" /\ todo = cases /\ drawn = 0
    /\ steps = <<>> /\ rows = <<>>

Convert(c) == ConvertConsentTemplate(c) \/ ConvertTokenTemplate(c) \/ ConvertRequest(c)

Next == Launch \/ Begin \/ (\E c \in ToSet(todo) : Convert(c)) \/ Converted \/ Over

Spec == Init /\ [][Next]_vars

-----------------------------------------------------------------------------
(* Properties.                                                             *)

InPhase(phase) == SelectSeq(steps, LAMBDA s : s.phase = phase)

\* build_execution_schedule runs the setup phase first; all the steps of the
\* execution phase are in the group "catalogue", in manifest order.
Schedule == InPhase("setup") \o InPhase("execution")

Earlier(order, k) == {order[j] : j \in 1 .. k - 1}

\* The consent whose authorisation a request relies on.
ConsentOf(c) == IF c.id \in CbpiiAuthorised THEN CbpiiConsent ELSE c.authorised

\* Every response that step k reads, and the token it presents, comes from a
\* step that ran before it.
ReadsAreWritten(order, k) ==
    /\ order[k].reads \subseteq {s.id : s \in Earlier(order, k)}
    /\ order[k].token \in {s.makes : s \in Earlier(order, k)} \union {None}

\* Step k runs after the PSU authorised the consent, and if it presents a
\* PSU's token, then the last one recorded under that name is the token of
\* that consent.
RunsUnderConsent(order, k, consent) ==
    LET token == order[k].token
        makers == {j \in 1 .. k - 1 : order[j].makes = token}
        last == CHOOSE j \in makers : \A i \in makers : i <= j
    IN  /\ <<"authorise", consent[2]>> \in {s.id : s \in Earlier(order, k)}
        /\ token \notin ScopedTokens => order[last].id = <<"exchange", consent[2]>>

\* What the compiler accepted can run: the conversion raises no ValueError
\* (executor.py, _compiled_plan_to_manifest) unless the plan has the discovery
\* step of AIS and no discovery URL, which only a plan that validates response
\* signatures has to have; the steps have different ids,
\* each finds what it reads in the order of the schedule although the setup
\* phase overtakes the execution phase, each request that relies on a consent
\* runs under that consent although two consents record the same token, and a
\* playback check expects what its own request sent and no other did.
AcceptedPlansCanRun ==
    /\ pc = "failed" => given[DiscoveryUrl] = "absent" /\ \E c \in ToSet(cases) : c.discovery
    /\ pc = "done" =>
         LET order == Schedule
             awaited == {c \in ToSet(cases) : ConsentOf(c) # None}
         IN  /\ \A j, k \in DOMAIN order : order[j].id = order[k].id => j = k
             /\ \A k \in DOMAIN order : ReadsAreWritten(order, k)
             /\ \A c \in awaited : \A k \in DOMAIN order :
                    order[k].id = c.id => RunsUnderConsent(order, k, ConsentOf(c))
             /\ \A k \in DOMAIN order : order[k].expects # 0 =>
                    {j \in DOMAIN order : order[j].sent = order[k].expects} = {k}

\* The rows shown while the run is pending (api/run_lifecycle.py) are the
\* steps it executes, in manifest order, although the two lists are built by
\* different code before and after the launch.
SnapshotListsTheRun == pc = "done" => rows = Rows(steps)
=============================================================================
