---------------------------- MODULE BuilderPages ----------------------------
(***************************************************************************)
(* The configuration pages of the plan builder                             *)
(* (conformance/api/builder_wizard.py): what each page shows of a draft,   *)
(* what it accepts, and the config a draft has after it.                   *)
(*                                                                         *)
(* A form is a record of objects; a field is named by the config field it  *)
(* fills, and a field left empty is not in the object.                     *)
(***************************************************************************)
EXTENDS BuilderScope

\* The filled fields among S.
FilledOf(object, S) == Copied(object, Identity(S))

\* A family of objects with different keys as one object.
Joined(f) ==
    [k \in UNION {DOMAIN f[i] : i \in DOMAIN f} |-> f[CHOOSE i \in DOMAIN f : k \in DOMAIN f[i]][k]]

-----------------------------------------------------------------------------
(* The business page.  Accounts, amounts and frequencies of PIS and CBPII  *)
(* have friendly fields and a JSON field each; so have the AIS account ids.*)

ObjectFields ==
    [pis_creditorAccount |->
        {"pis_creditorAccount_schemeName", "pis_creditorAccount_identification", "pis_creditorAccount_name"},
     pis_internationalCreditorAccount |->
        {"pis_internationalCreditorAccount_schemeName", "pis_internationalCreditorAccount_identification",
         "pis_internationalCreditorAccount_name"},
     pis_instructedAmount |-> {"pis_instructedAmount_amount", "pis_instructedAmount_currency"},
     pis_standingOrderFrequency |-> {"pis_standingOrderFrequency_type", "pis_standingOrderFrequency_pointInTime"},
     cbpii_debtorAccount |->
        {"cbpii_debtorAccount_schemeName", "cbpii_debtorAccount_identification", "cbpii_debtorAccount_name"}]

VrpFields == DOMAIN VrpInput

\* Fields with no JSON field.
PlainFields ==
    [ais |-> {"ais_transactionFromDate", "ais_transactionToDate"},
     pis |-> {"pis_currencyOfTransfer", "pis_requestedExecutionDateTime", "pis_firstPaymentDateTime",
              "pis_standingOrderFrequencyV31"},
     cbpii |-> {},
     vrp |-> VrpFields]

ObjectsOf ==
    [ais |-> {}, cbpii |-> {"cbpii_debtorAccount"}, vrp |-> {},
     pis |-> {"pis_creditorAccount", "pis_internationalCreditorAccount", "pis_instructedAmount", "pis_standingOrderFrequency"}]

FieldsOf(api) == PlainFields[api] \union UNION {ObjectFields[o] : o \in ObjectsOf[api]}

\* business_config_form_initial: friendly and JSON fields both show what is saved.
BusinessInitial(config) ==
    [fields |-> Restriction(config.sections, UNION {FieldsOf(api) : api \in Apis}),
     account |-> IF FirstAccountId(config) = {} THEN Absent ELSE Head(config.accountIds),
     json |-> [o \in {o \in DOMAIN ObjectFields : DOMAIN Restriction(config.sections, ObjectFields[o]) # {}} |->
                 Restriction(config.sections, ObjectFields[o])],
     accountsJson |-> config.accountIds]

\* _set_object_from_fields_or_json
ObjectFromForm(form, o) ==
    IF o \in DOMAIN form.json THEN form.json[o] ELSE FilledOf(form.fields, ObjectFields[o])

\* The fields of one API, as a function of the friendly and the JSON fields.
SectionFromForm(form, api) ==
    FilledOf(form.fields, PlainFields[api]) @@ Joined([o \in ObjectsOf[api] |-> ObjectFromForm(form, o)])

AccountsFromForm(form) ==
    IF form.accountsJson # <<>> THEN form.accountsJson
    ELSE IF form.account \in {Absent, Blank} THEN <<>> ELSE <<form.account>>

\* _business_config_from_fields: the APIs in scope only
BusinessConfig(form, apis) ==
    [sections |-> Joined([api \in apis |-> SectionFromForm(form, api)]),
     accountIds |-> IF "ais" \in apis THEN AccountsFromForm(form) ELSE <<>>]

\* _update_pis_requiredness_for_path, and the two spellings of a frequency
RequiredFields(kind, version) ==
    LET domestic == ObjectFields.pis_creditorAccount \union ObjectFields.pis_instructedAmount
        international ==
            ObjectFields.pis_internationalCreditorAccount \union ObjectFields.pis_instructedAmount
                \union {"pis_currencyOfTransfer"}
        frequency ==
            IF version = "3.1.11" THEN {"pis_standingOrderFrequencyV31"} ELSE ObjectFields.pis_standingOrderFrequency IN
    CASE kind = "domestic-standing-order" -> domestic \union {"pis_firstPaymentDateTime"} \union frequency
      [] kind = "domestic-scheduled-payment" -> domestic \union {"pis_requestedExecutionDateTime"}
      [] kind = "domestic-payment" -> domestic
      [] kind = "international-scheduled-payment" -> international \union {"pis_requestedExecutionDateTime"}
      [] kind = "international-payment" -> international
      [] OTHER -> {}

\* The endpoints of a document, as the catalogues offer them.
SelectedEndpoints(b, d) ==
    UNION {{e \in Range(AreaOf(b, ApiOfGroup(g.id)).endpoints) : e.ref \in RefsOf(b, g)} : g \in Range(d.groups)}

SelectedApis(d) == {ApiOfGroup(g.id) : g \in Range(d.groups)}

RequiredInputs(b, d) == UNION {e.inputs : e \in SelectedEndpoints(b, d)}

\* What BusinessConfigForm refuses of a form that gives config.
BadBusiness(form, config, apis, b, d) ==
    \/ "cbpii" \in apis /\ ~\A k \in ObjectFields.cbpii_debtorAccount : Filled(form.fields, k)
    \/ "vrp" \in apis /\ ~\A k \in VrpFields : Filled(form.fields, k)
    \/ /\ "ais" \in apis /\ "consentedAccountId" \in RequiredInputs(b, d)
       /\ config.accountIds = <<>> \/ Head(config.accountIds) \in {Absent, Blank}
    \/ \E e \in SelectedEndpoints(b, d) :
         ~\A k \in RequiredFields(e.kind, Offer[b].version) : Filled(config.sections, k)

BadBusinessForm(form, b, d) == BadBusiness(form, BusinessConfig(form, SelectedApis(d)), SelectedApis(d), b, d)

WithBusiness(config, entered) == [config EXCEPT !.sections = entered.sections, !.accountIds = entered.accountIds]

MergeBusiness(config, form, apis) == WithBusiness(config, BusinessConfig(form, apis))

-----------------------------------------------------------------------------
(* The discovery page and the security page.                               *)

\* _DISCOVERY_CONFIG_KEYS: the page asks for the first of them only.
DiscoveryKeys == {"discoveryUrl", "timeoutSeconds", "followUp"}

MergeDiscovery(config, url) ==
    [config EXCEPT !.scalars = (IF url = Absent THEN EmptyObject ELSE "discoveryUrl" :> url)
                                 @@ Restriction(@, DOMAIN @ \ DiscoveryKeys)]

OAuthFormFields ==
    {"clientId", "redirectUri", "authorizationEndpoint", "issuer", "tokenEndpoint", "responseType",
     "requestObjectSigningAlg"}

SigningFormFields == {SigningFields[k] : k \in DOMAIN SigningFields}

TlsFormFields == DOMAIN ExportedTlsFields

\* The fields an imported security environment decides.
OverriddenSigning == [signingPrivateKeyPath |-> "signingPrivateKeyPath", signingKeyId |-> "kid",
                      clientAuthMethod |-> "tokenEndpointAuthMethod"]

Imported(draft) == DOMAIN draft.environment \union DOMAIN draft.mtls # {}

SigningInitial(draft) ==
    IF ~Imported(draft) THEN FilledOf(draft.config.fapiSigning, SigningFormFields)
    ELSE Copied(draft.environment, OverriddenSigning)
           @@ FilledOf(draft.config.fapiSigning, SigningFormFields \ Range(OverriddenSigning))

TlsInitial(draft) ==
    IF Imported(draft) THEN Copied(draft.mtls, MtlsFields) ELSE FilledOf(draft.config.tls, TlsFormFields)

\* Mutant of SecurityInitial: what discovery found wins over what was saved.
SecurityInitialFound(draft) ==
    [oauth |-> FilledOf(draft.discovery, OAuthFormFields) @@ FilledOf(draft.config.oauth, OAuthFormFields),
     resourceServer |-> FilledOf(draft.config.resourceServer, {"baseUrl"}),
     fapiSigning |-> SigningInitial(draft),
     tls |-> TlsInitial(draft)]

\* security_config_form_initial; what discovery found fills the gaps.
SecurityInitial(draft) ==
    [oauth |-> FilledOf(draft.config.oauth, OAuthFormFields) @@ FilledOf(draft.discovery, OAuthFormFields),
     resourceServer |->
        FilledOf(draft.config.resourceServer, {"baseUrl"}) @@ Copied(draft.config.oauth, [resourceBaseUrl |-> "baseUrl"]),
     fapiSigning |-> SigningInitial(draft),
     tls |-> TlsInitial(draft)]

\* What SecurityConfigForm refuses of a Read/Write plan.
BadSecurityForm(form) ==
    LET signing == FilledOf(form.fapiSigning, SigningFormFields) IN
    \/ DOMAIN signing \notin {{}, SigningFormFields}
    \/ ~(Restriction(form.fapiSigning, {"tokenEndpointAuthMethod"}) = EmptyObject
           \/ form.fapiSigning.tokenEndpointAuthMethod \in {"private_key_jwt", "tls_client_auth"})
    \/ Filled(form.tls, "clientCertificatePath") # Filled(form.tls, "clientPrivateKeyPath")

\* Mutant of MergeSecurity: only what was entered is kept.
MergeSecurityAlone(config, form) ==
    [CanonicalConfig(EmptyObject, EmptyObject, NoBusiness) EXCEPT
        !.oauth = FilledOf(form.oauth, OAuthFormFields), !.tls = FilledOf(form.tls, TlsFormFields)]

MergeSecurity(config, form) ==
    [config EXCEPT !.oauth = FilledOf(form.oauth, OAuthFormFields),
                   !.resourceServer = FilledOf(form.resourceServer, {"baseUrl"}),
                   !.fapiSigning = FilledOf(form.fapiSigning, SigningFormFields),
                   !.tls = FilledOf(form.tls, TlsFormFields)]

-----------------------------------------------------------------------------
(* The security page of a registration plan.                               *)

DcrSecurityFields == {"signingPrivateKeyPath", "signingKeyId", "clientAuthMethod", "clientAuthSigningAlgorithm"}

DcrFlags == {"useNumericOidSubjectDn", "disableKeepAlive"}

\* security_config_form_initial of a registration plan
DcrInitial(draft) ==
    [environment |->
        IF Imported(draft)
        THEN FilledOf(draft.environment, DcrSecurityFields) @@ FilledOf(draft.discovery, {"clientAuthSigningAlgorithm"})
        ELSE Copied(draft.config.fapiSigning, [signingPrivateKeyPath |-> "signingPrivateKeyPath", kid |-> "signingKeyId",
                                               tokenEndpointAuthMethod |-> "clientAuthMethod"]),
     mtls |-> Copied(TlsInitial(draft), ExportedTlsFields),
     registration |-> FilledOf(draft.registration, RegistrationFields) @@ [f \in DcrFlags |-> "false"],
     metadata |-> FilledOf(draft.metadata, MetadataFields),
     mode |-> draft.mode]

\* Mutant of BadDcrForm: a path may be relative.
BadDcrFormAnyPath(form) ==
    \/ ~\A k \in DcrSecurityFields \ {"clientAuthSigningAlgorithm"} : Filled(form.environment, k)
    \/ ~\A k \in {"certificatePath", "privateKeyPath"} : Filled(form.mtls, k)
    \/ ~\A k \in {"softwareStatementAssertionPath", "registrationAudience"} : Filled(form.registration, k)
    \/ BadValues(form.registration)
    \/ form.environment.clientAuthMethod = Malformed

\* SecurityConfigForm in DCR mode and _validate_dcr_form_fields
BadDcrForm(form) ==
    \/ ~\A k \in DcrSecurityFields \ {"clientAuthSigningAlgorithm"} : Filled(form.environment, k)
    \/ ~\A k \in {"certificatePath", "privateKeyPath"} : Filled(form.mtls, k)
    \/ ~\A k \in {"softwareStatementAssertionPath", "registrationAudience"} : Filled(form.registration, k)
    \/ BadTexts(form.environment, {}, {"signingPrivateKeyPath"})
    \/ BadTexts(form.mtls, {}, MtlsPaths)
    \/ BadTexts(form.registration, {}, {"softwareStatementAssertionPath", "signingCertificatePath"})
    \/ BadValues(form.registration)
    \/ form.environment.clientAuthMethod = Malformed

\* _dcr_security_environment_from_fields
DcrEnvironment(form) == FilledOf(form.environment, DcrSecurityFields) @@ ("signingAlgorithm" :> "PS256")

DcrMtls(form) == FilledOf(form.mtls, MtlsPaths) @@ ("enabled" :> "true")

\* _dcr_config_from_fields
DcrRegistration(form) == FilledOf(form.registration, RegistrationFields \ DcrFlags) @@ Restriction(form.registration, DcrFlags)

\* _dcr_metadata_from_fields
DcrMetadata(form) == FilledOf(form.metadata, MetadataFields)

-----------------------------------------------------------------------------
(* The document of a draft.                                                *)

\* Of an imported object and the one derived from the config: the latter wins,
\* key by key (_merged_plan_context).
MergedContext(imported, derived) == derived @@ imported

ApiOfField == [k \in UNION {FieldsOf(api) : api \in Apis} |-> CHOOSE api \in Apis : k \in FieldsOf(api)]

SectionOf(business, api) ==
    [fields |-> Restriction(business.sections, {k \in DOMAIN ApiOfField : ApiOfField[k] = api}),
     accountIds |-> IF api = "ais" THEN business.accountIds ELSE <<>>]

\* The section of an API is a single key: the imported one is used only when
\* the config has none.
MergedSection(own, imported) == IF DOMAIN own.fields # {} \/ own.accountIds # <<>> THEN own ELSE imported

\* _scoped_business_plan_context
ScopedBusiness(sections, imported, derived) ==
    [sections |-> Joined([api \in DOMAIN sections |-> sections[api].fields]),
     accountIds |-> IF "ais" \in DOMAIN sections THEN sections["ais"].accountIds ELSE <<>>,
     runtimeInputs |-> IF DOMAIN derived.runtimeInputs # {} THEN derived.runtimeInputs ELSE imported.runtimeInputs,
     inputs |-> IF DOMAIN derived.inputs # {} THEN derived.inputs ELSE imported.inputs]

MergedBusiness(imported, derived, apis) ==
    ScopedBusiness([api \in apis |-> MergedSection(SectionOf(derived, api), SectionOf(imported, api))], imported, derived)

MergedMtls(imported, derived) == IF DOMAIN derived # {} THEN derived ELSE imported

\* The raw plan of plan_document_from_draft
RawPlanOf(draft, groups) ==
    LET b == draft.boundary
        direct == IsDirect(b) IN
    [schemaVersion |-> "1.0",
     family |-> Offer[b].family,
     named |-> direct,
     version |-> Offer[b].version,
     profile |-> IF direct THEN Absent ELSE CanonicalProfile[draft.profile],
     securityProfile |-> Absent,
     mode |-> draft.mode,
     keys |-> IF direct THEN {"endpoints", "dynamicClientRegistration"} ELSE {"resourceGroups", "businessTestData"},
     environment |-> MergedContext(draft.environment, EnvironmentFromConfig(draft.config)),
     mtls |-> MergedMtls(draft.mtls, MtlsFromConfig(draft.config)),
     groups |-> IF direct THEN <<>> ELSE groups,
     endpoints |-> IF direct THEN RawDirectEndpoints(draft.scope) ELSE <<>>,
     business |-> IF direct THEN NoBusiness
                  ELSE MergedBusiness(draft.business, BusinessFromConfig(draft.config), {ApiOfGroup(g.id) : g \in Range(groups)}),
     registration |-> IF direct THEN draft.registration ELSE EmptyObject,
     metadata |-> draft.metadata,
     config |-> Nothing]

RawPlan(draft) == RawPlanOf(draft, RawGroups(draft.boundary, draft.scope))

\* plan_document_from_draft raises.
Unbuildable(draft) == StaleScope(draft.boundary, draft.scope) \/ BadCanonical(RawPlan(draft))

DocumentOf(draft) == ParsedCanonical(RawPlan(draft))

-----------------------------------------------------------------------------
(* The runtime page and the review.                                        *)

\* _STRUCTURED_CONFIG_RUNTIME_INPUT_IDS: not prompted for when they are there.
StructuredIds ==
    {"resourceBaseUrl", "consentedAccountId"} \union Range(VrpInput)
        \union {StructuredInput[k] : k \in {k \in DOMAIN StructuredInput : ApiOfField[k] \in {"ais", "cbpii"}}}

\* runtime_input_prompts_for_plan_document
Prompts(b, d) ==
    {i \in RequiredInputs(b, d) \union UNION {e.filters : e \in SelectedEndpoints(b, d)} :
        i \notin StructuredIds \/ ~Filled(d.runtime_inputs, i)}

RuntimeInitial(b, d) == Restriction(d.runtime_inputs, Prompts(b, d))

MergeRuntime(config, values, prompts) == [config EXCEPT !.inputs = FilledOf(values, prompts)]

MissingInputs(b, d) == {i \in RequiredInputs(b, d) : ~Filled(d.runtime_inputs, i)}

Signed(b, d) == \E e \in SelectedEndpoints(b, d) : e.signed

\* _builder_review_state: what keeps a document from being launched.  That no
\* endpoint is selected keeps it from being built (Unbuildable).
Blockers(b, d, existing) ==
    (IF BadConfiguration(d, existing) \/ BadRunnerConfig(d.config, existing) THEN {"config"} ELSE {})
        \union (IF MissingInputs(b, d) # {} THEN {"inputs"} ELSE {})
        \union (IF Signed(b, d) /\ ~HasDiscoveryUrl(d.environment) /\ ~HasDiscoveryUrl(d.config.scalars)
                THEN {"discovery"} ELSE {})
        \union (IF Blocked(b) THEN {"boundary"} ELSE {})

Launchable(b, d, existing) == ~CompileRefuses(b, d) /\ Blockers(b, d, existing) = {}

LaunchSupported(draft, existing) == ~Unbuildable(draft) /\ Launchable(draft.boundary, DocumentOf(draft), existing)

\* prepare_test_plan_for_run of the export that builder_launch hands it;
\* compilation refuses a plan that lacks a required input (PlanCompiler).
LaunchRefused(b, written, existing) ==
    \/ SchemaRefuses(written) \/ BadCanonical(written)
    \/ ~Launchable(b, ParsedCanonical(written), existing)
=============================================================================
