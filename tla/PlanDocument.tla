---------------------------- MODULE PlanDocument ----------------------------
(***************************************************************************)
(* conformance/catalogue.py: what a test plan document is parsed into, and *)
(* the canonical "1.0" document it is exported as.                         *)
(*                                                                         *)
(* A parsed document carries the same facts twice: in the words of the     *)
(* document (security environment, business test data) and in the words of *)
(* the runner (config, runtime inputs).  A "1.0" document is parsed from   *)
(* the former to the latter, a legacy "v2" document the other way round,   *)
(* and export writes the former again, from whichever is there.            *)
(*                                                                         *)
(* A JSON object is a function whose domain is the keys it has.  Texts are *)
(* told apart by their value, by being blank and, for a URL, by their      *)
(* scheme.  Blank is a text of white space only.                           *)
(***************************************************************************)
EXTENDS Integers, Sequences, FiniteSets, TLC, SequencesExt

CONSTANTS
    Spelling,     \* written (method, path) |-> the normalised reference
    Registration, \* the reference POST /register
    Managements   \* the references of GET, PUT and DELETE /register/{ClientId}

Blank == " "

Absent == "absent"

EmptyObject == [k \in {} |-> Absent]

Restriction(f, S) == [k \in DOMAIN f \intersect S |-> f[k]]

\* validate_https_url accepts the first only.
HttpsUrl == "https"

HttpUrl == "http"

-----------------------------------------------------------------------------
(* specification_registry.py                                               *)

\* versions, and the security profiles of each of them
Specifications ==
    [OBL_READ_WRITE |->
        [versions |-> {"4.0.1", "4.0.0", "4.0", "3.1.11"}, profiles |-> <<"fapi1-advanced">>, groups |-> TRUE],
     OBL_DCR |->
        [versions |-> {"3.4"}, profiles |-> <<"all">>, groups |-> FALSE]]

Families == DOMAIN Specifications

\* derived_security_profile_for_boundary
DerivedProfile(family) == Head(Specifications[family].profiles)

\* _parse_canonical_security_profile; both spellings are accepted.
ProfileOfName ==
    [FAPI1_ADVANCED |-> "fapi1-advanced", FAPI2 |-> "fapi2", ALL |-> "all"]
        @@ [p \in {"fapi1-advanced", "fapi2", "all"} |-> p]

-----------------------------------------------------------------------------
(* Resource groups.  An id is written canonically (AIS), as the builder    *)
(* does (account-and-transaction), or as an area and a slug (ais.accounts).*)

Apis == {"ais", "pis", "cbpii", "vrp"}

GroupIds == {"canonical", "builder"} \X Apis \union {"slug"} \X (Apis \union {"other"})

\* _api_for_plan_resource_group_id
ApiOfGroup(id) == id[2]

\* _canonical_group_for_id
KnownGroup(id) == ApiOfGroup(id) \in Apis

\* _canonical_resource_group_id
CanonicalGroupId(id) == IF KnownGroup(id) THEN <<"canonical", ApiOfGroup(id)>> ELSE id

Endpoint(e) == [ref |-> Spelling[e.spelling], capabilities |-> e.capabilities]

\* Two endpoints with the same normalised reference, or two equal capabilities.
BadEndpoints(endpoints) ==
    \/ \E i, j \in DOMAIN endpoints : i # j /\ Spelling[endpoints[i].spelling] = Spelling[endpoints[j].spelling]
    \/ \E i \in DOMAIN endpoints : ~IsInjective(endpoints[i].capabilities)

\* A group is selected whole when it is a string or lists no endpoints.
ParsedGroup(g) ==
    [id |-> <<"builder", ApiOfGroup(g.id)>>,
     endpoints |-> [i \in DOMAIN g.endpoints |-> Endpoint(g.endpoints[i])],
     select_all |-> g.endpoints = <<>>]

BadGroups(groups) ==
    \/ groups = <<>>
    \/ \E i \in DOMAIN groups : ~KnownGroup(groups[i].id) \/ BadEndpoints(groups[i].endpoints)
    \/ \E i, j \in DOMAIN groups : i # j /\ ApiOfGroup(groups[i].id) = ApiOfGroup(groups[j].id)

\* _parse_plan_document_v2_resource_group: the id is kept as written and an
\* empty list of endpoints selects nothing.
LegacyGroup(g) == [ParsedGroup(g) EXCEPT !.id = g.id, !.select_all = FALSE]

BadLegacyGroups(groups) ==
    \/ \E i \in DOMAIN groups : BadEndpoints(groups[i].endpoints)
    \/ \E i, j \in DOMAIN groups : i # j /\ groups[i].id = groups[j].id

\* A written group; a whole group is written as a string.
ExportedGroup(g) ==
    [id |-> CanonicalGroupId(g.id),
     endpoints |->
        IF g.select_all THEN <<>>
        ELSE [i \in DOMAIN g.endpoints |->
                [spelling |-> g.endpoints[i].ref, capabilities |-> g.endpoints[i].capabilities]]]

\* The endpoints of a DCR document, with the flags each must have.
BadDirectEndpoints(endpoints) ==
    \/ \E i, j \in DOMAIN endpoints : i # j /\ Spelling[endpoints[i].spelling] = Spelling[endpoints[j].spelling]
    \/ \E i \in DOMAIN endpoints :
        LET ref == Spelling[endpoints[i].spelling] IN
        \/ ref \notin {Registration} \union Managements
        \/ endpoints[i].required # (ref = Registration)
        \/ endpoints[i].locked # (ref = Registration)
    \/ \A i \in DOMAIN endpoints : Spelling[endpoints[i].spelling] # Registration

DirectEndpoint(e) == [ref |-> Spelling[e.spelling], required |-> e.required, locked |-> e.locked]

ExportedDirectEndpoint(e) == [spelling |-> e.ref, required |-> e.required, locked |-> e.locked]
-----------------------------------------------------------------------------
(* The security environment and the runner's config.                       *)

Filled(object, k) == k \in DOMAIN object /\ object[k] # Blank

\* _copy_optional_top_level_value for every pair of a table: source |-> target.
Copied(source, table) ==
    LET kept == {k \in DOMAIN table : Filled(source, k)} IN
    [t \in {table[k] : k \in kept} |-> source[CHOOSE k \in kept : table[k] = t]]

Identity(S) == [k \in S |-> k]

OAuthFields ==
    Identity({"clientId", "redirectUri", "authorizationEndpoint", "issuer", "tokenEndpoint",
              "resourceBaseUrl", "responseType"})
        @@ ("signingAlgorithm" :> "requestObjectSigningAlg")

\* Without a client id and a redirect URI there is no oauth section.
OAuthConfig(environment) ==
    LET oauth == Copied(environment, OAuthFields) IN
    IF {"clientId", "redirectUri"} \subseteq DOMAIN oauth THEN oauth ELSE EmptyObject

SigningFields ==
    Identity({"signingCertificatePath", "signingPrivateKeyPath", "clientAssertionIssuer",
              "clientAssertionSubject"})
        @@ ("signingKeyId" :> "kid") @@ ("clientAuthMethod" :> "tokenEndpointAuthMethod")

\* The fapiSigning section has all of its fields or is left out.
SigningConfig(environment) ==
    LET signing == Copied(environment, SigningFields) IN
    IF Cardinality(DOMAIN signing) = Cardinality(DOMAIN SigningFields) THEN signing ELSE EmptyObject

MtlsFields ==
    [caBundlePath |-> "caBundlePath", certificatePath |-> "clientCertificatePath",
     privateKeyPath |-> "clientPrivateKeyPath"]

\* _config_from_security_environment and _config_from_business_test_data
CanonicalConfig(environment, mtls, business) ==
    [scalars |-> Restriction(environment, {"discoveryUrl"}),
     oauth |-> OAuthConfig(environment),
     fapiSigning |-> SigningConfig(environment),
     tls |-> Copied(mtls, MtlsFields),
     resourceServer |-> Copied(environment, [resourceBaseUrl |-> "baseUrl"]),
     sections |-> business.sections,
     accountIds |-> [i \in DOMAIN business.accountIds |-> business.accountIds[i].id],
     runtimeInputs |-> business.runtimeInputs,
     inputs |-> business.inputs]

\* Mutant of ExportedOAuthFields: the algorithm keeps the runner's name.
ExportedOAuthFieldsUnrenamed ==
    Identity({"issuer", "authorizationEndpoint", "tokenEndpoint", "clientId", "redirectUri",
              "resourceBaseUrl", "responseType", "requestObjectSigningAlg"})

ExportedOAuthFields ==
    Identity({"issuer", "authorizationEndpoint", "tokenEndpoint", "clientId", "redirectUri",
              "resourceBaseUrl", "responseType"})
        @@ ("requestObjectSigningAlg" :> "signingAlgorithm")

ExportedSigningFields ==
    Identity({"signingCertificatePath", "signingPrivateKeyPath", "clientAssertionIssuer",
              "clientAssertionSubject"})
        @@ ("kid" :> "signingKeyId") @@ ("tokenEndpointAuthMethod" :> "clientAuthMethod")

\* _security_environment_from_plan_config; the resource server's base URL is
\* written last and wins over the one of the oauth section.
EnvironmentFromConfig(config) ==
    Copied(config.resourceServer, [baseUrl |-> "resourceBaseUrl"])
        @@ Copied(config.fapiSigning, ExportedSigningFields)
        @@ Copied(config.oauth, ExportedOAuthFields)
        @@ Copied(config.scalars, [discoveryUrl |-> "discoveryUrl"])

ExportedTlsFields ==
    [caBundlePath |-> "caBundlePath", clientCertificatePath |-> "certificatePath",
     clientPrivateKeyPath |-> "privateKeyPath"]

\* _merge_mtls_export
MtlsFromConfig(config) ==
    LET mtls == Copied(config.tls, ExportedTlsFields) IN
    IF DOMAIN mtls = {} THEN mtls
    ELSE mtls @@ ("enabled" :>
                    IF {"certificatePath", "privateKeyPath"} \subseteq DOMAIN mtls THEN "true" ELSE "false")

\* Account ids are texts in the business data and objects in the config; an
\* object that has no account id stays an object.
AccountIdFromConfig(id) == [form |-> IF id = Absent THEN "object" ELSE "string", id |-> id]

\* _MODEL_BANK_CONFIG_KEYS that are texts
RunnerScalars == {"discoveryUrl", "resultOutputPath", "executionLogPath", "approvedReleasePolicyPath"}

\* _business_test_data_from_plan_config.  A runtimeInputs object that is there
\* is not empty.
BusinessFromConfig(config) ==
    [sections |-> config.sections,
     accountIds |-> [i \in DOMAIN config.accountIds |-> AccountIdFromConfig(config.accountIds[i])],
     runtimeInputs |->
        IF DOMAIN config.runtimeInputs # {} THEN config.runtimeInputs
        ELSE Restriction(config.scalars, DOMAIN config.scalars \ RunnerScalars),
     inputs |-> config.inputs]

-----------------------------------------------------------------------------
(* Runtime inputs: one value per id, collected from all over the config.   *)

\* _merge_structured_runtime_inputs; a field is named by its path.
StructuredInput ==
    [cbpii_debtorAccount_schemeName |-> "debtorAccountSchemeName",
     cbpii_debtorAccount_identification |-> "debtorAccountIdentification",
     cbpii_debtorAccount_name |-> "debtorAccountName",
     ais_transactionFromDate |-> "fromBookingDateTime",
     ais_transactionToDate |-> "toBookingDateTime",
     pis_creditorAccount_schemeName |-> "pisCreditorAccountSchemeName",
     pis_creditorAccount_identification |-> "pisCreditorAccountIdentification",
     pis_creditorAccount_name |-> "pisCreditorAccountName",
     pis_internationalCreditorAccount_schemeName |-> "pisInternationalCreditorAccountSchemeName",
     pis_internationalCreditorAccount_identification |-> "pisInternationalCreditorAccountIdentification",
     pis_internationalCreditorAccount_name |-> "pisInternationalCreditorAccountName",
     pis_instructedAmount_amount |-> "pisInstructedAmountAmount",
     pis_instructedAmount_currency |-> "pisInstructedAmountCurrency",
     pis_standingOrderFrequency_type |-> "pisStandingOrderFrequencyType",
     pis_standingOrderFrequency_pointInTime |-> "pisStandingOrderFrequencyPointInTime",
     pis_standingOrderFrequencyV31 |-> "pisStandingOrderFrequencyV31",
     pis_currencyOfTransfer |-> "pisCurrencyOfTransfer",
     pis_requestedExecutionDateTime |-> "pisRequestedExecutionDateTime",
     pis_firstPaymentDateTime |-> "pisFirstPaymentDateTime"]

VrpInput ==
    [vrp_creditorAccount_schemeName |-> "vrpCreditorAccountSchemeName",
     vrp_creditorAccount_identification |-> "vrpCreditorAccountIdentification",
     vrp_creditorAccount_name |-> "vrpCreditorAccountName",
     vrp_instructedAmount_amount |-> "vrpInstructedAmountAmount",
     vrp_instructedAmount_currency |-> "vrpInstructedAmountCurrency",
     vrp_validFromDateTime |-> "vrpValidFromDateTime",
     vrp_validToDateTime |-> "vrpValidToDateTime"]

Pairs(f) == {<<k, f[k]>> : k \in DOMAIN f}

\* _first_object_string
FirstAccountId(config) ==
    IF config.accountIds = <<>> \/ Head(config.accountIds) \in {Absent, Blank} THEN {}
    ELSE {<<"consentedAccountId", Head(config.accountIds)>>}

\* Blank fields are passed over.
StructuredPairs(config) ==
    Pairs(Copied(config.resourceServer, [baseUrl |-> "resourceBaseUrl"]))
        \union Pairs(Copied(config.oauth, [resourceBaseUrl |-> "resourceBaseUrl"]))
        \union Pairs(Copied(config.sections, StructuredInput @@ VrpInput))
        \union FirstAccountId(config)

\* The (id, value) pairs that _runtime_inputs_from_plan_config merges, but
\* for the ones of the legacy inputs object.
DeclaredInputs(config) ==
    Pairs(config.scalars)
        \union StructuredPairs(config)
        \union Pairs(config.runtimeInputs)

InputPairs(config) == DeclaredInputs(config) \union Pairs(config.inputs)

\* _merge_plan_config_runtime_input refuses a second value of an id.
Conflict(pairs) == \E p, q \in pairs : p[1] = q[1] /\ p[2] # q[2]

ValueIn(pairs, id) == (CHOOSE p \in pairs : p[1] = id)[2]

RuntimeInputs(pairs) == [id \in {p[1] : p \in pairs} |-> ValueIn(pairs, id)]
=============================================================================
