--------------------------- MODULE CanonicalPlan ---------------------------
(***************************************************************************)
(* A whole test plan document: conformance/catalogue.py parses a canonical *)
(* or a legacy one and exports it again, conformance/test_plan_validation.py*)
(* says what is wrong with it.                                             *)
(***************************************************************************)
EXTENDS DcrPlanConfiguration

Nothing == [none |-> TRUE]

UsesGroups(family) == family \in Families /\ Specifications[family].groups

NoBusiness == [sections |-> EmptyObject, accountIds |-> <<>>, runtimeInputs |-> EmptyObject, inputs |-> EmptyObject]

-----------------------------------------------------------------------------
(* A canonical document.                                                   *)

Business(r) == IF UsesGroups(r.family) THEN r.business ELSE NoBusiness

ConfigOf(r) == CanonicalConfig(r.environment, r.mtls, Business(r))

Profile(r) ==
    IF ~UsesGroups(r.family) \/ (r.profile = Absent /\ r.securityProfile = Absent) THEN DerivedProfile(r.family)
    ELSE ProfileOfName[IF r.profile # Absent THEN r.profile ELSE r.securityProfile]

BadProfile(r) ==
    LET given == {r.profile, r.securityProfile} \ {Absent} IN
    \/ ~(given \subseteq DOMAIN ProfileOfName)
    \/ Cardinality({ProfileOfName[p] : p \in given}) > 1
    \/ Profile(r) # DerivedProfile(r.family)

\* _parse_canonical_specification
BadSpecification(r) ==
    \/ r.family \notin Families
    \/ r.version \notin Specifications[r.family].versions
    \/ IF UsesGroups(r.family) THEN BadProfile(r) ELSE ~r.named

\* _validate_canonical_scope_shape; businessTestData is required when it is read.
BadShape(r) ==
    IF UsesGroups(r.family) THEN r.keys # {"resourceGroups", "businessTestData"}
    ELSE "endpoints" \notin r.keys \/ r.keys \intersect {"resourceGroups", "businessTestData"} # {}

\* _parse_canonical_security_environment
BadEnvironment(r) ==
    \/ "discoveryUrl" \in DOMAIN r.environment /\ r.environment.discoveryUrl # HttpsUrl
    \/ \E k \in MtlsPaths : k \in DOMAIN r.mtls /\ r.mtls[k] = Blank
    \/ "clientAuthMethod" \in DOMAIN r.environment /\ r.environment.clientAuthMethod \in {Blank, Malformed}

\* _parse_canonical_plan_document
BadCanonical(r) ==
    \/ BadSpecification(r)
    \/ BadShape(r)
    \/ r.mode \notin {Absent, "certification", "development"}
    \/ BadEnvironment(r)
    \/ IF UsesGroups(r.family) THEN BadGroups(r.groups) ELSE BadDirectEndpoints(r.endpoints)
    \/ Conflict(InputPairs(ConfigOf(r)))

ParsedWith(r, config) ==
    [schema_version |-> "1.0",
     family |-> r.family,
     version |-> r.version,
     profile |-> Profile(r),
     groups |-> IF UsesGroups(r.family) THEN [i \in DOMAIN r.groups |-> ParsedGroup(r.groups[i])] ELSE <<>>,
     endpoints |-> IF UsesGroups(r.family) THEN <<>> ELSE [i \in DOMAIN r.endpoints |-> DirectEndpoint(r.endpoints[i])],
     config |-> config,
     runtime_inputs |-> RuntimeInputs(InputPairs(config)),
     environment |-> r.environment,
     mtls |-> r.mtls,
     business |-> Business(r),
     registration |-> IF "dynamicClientRegistration" \in r.keys THEN r.registration ELSE EmptyObject,
     metadata |-> r.metadata,
     mode |-> IF r.mode = Absent THEN "certification" ELSE r.mode]

ParsedCanonical(r) == ParsedWith(r, ConfigOf(r))

-----------------------------------------------------------------------------
(* A legacy document brings its config along.                              *)

BadLegacy(r) ==
    \/ r.profile \notin {"all", "fapi1-advanced", "fapi2"}
    \/ BadLegacyGroups(r.groups)
    \/ Conflict(InputPairs(r.config))

HasDiscoveryUrl(object) == Filled(object, "discoveryUrl")

\* The parsed environment stays empty when there is no discovery URL.
ParsedLegacy(r) ==
    LET discovered == HasDiscoveryUrl(r.config.scalars) IN
    [schema_version |-> "v2",
     family |-> r.family,
     version |-> r.version,
     profile |-> r.profile,
     groups |-> [i \in DOMAIN r.groups |-> LegacyGroup(r.groups[i])],
     endpoints |-> <<>>,
     config |-> r.config,
     runtime_inputs |-> RuntimeInputs(InputPairs(r.config)),
     environment |-> IF discovered THEN EnvironmentFromConfig(r.config) ELSE EmptyObject,
     mtls |-> IF discovered THEN MtlsFromConfig(r.config) ELSE EmptyObject,
     business |-> BusinessFromConfig(r.config),
     registration |-> EmptyObject,
     metadata |-> EmptyObject,
     mode |-> "certification"]

-----------------------------------------------------------------------------
(* Export.                                                                 *)

CanonicalProfile == ("fapi1-advanced" :> "FAPI1_ADVANCED") @@ [fapi2 |-> "FAPI2", all |-> "ALL"]

\* _exportable_business_test_data leaves the legacy inputs object out.
ExportedBusiness(d) == [(IF d.business = NoBusiness THEN BusinessFromConfig(d.config) ELSE d.business) EXCEPT !.inputs = EmptyObject]

\* plan_document_to_json_object
ExportedDocument(d) ==
    LET groups == UsesGroups(d.family)
        kept == HasDiscoveryUrl(d.environment) IN
    [schemaVersion |-> "1.0",
     family |-> d.family,
     named |-> ~groups,
     version |-> d.version,
     profile |-> IF groups THEN CanonicalProfile[d.profile] ELSE Absent,
     securityProfile |-> Absent,
     mode |-> d.mode,
     keys |-> IF groups THEN {"resourceGroups", "businessTestData"}
              ELSE {"endpoints"} \union (IF DOMAIN d.registration = {} THEN {} ELSE {"dynamicClientRegistration"}),
     environment |-> IF kept THEN d.environment ELSE EnvironmentFromConfig(d.config),
     mtls |-> IF kept THEN d.mtls ELSE MtlsFromConfig(d.config),
     groups |-> IF groups THEN [i \in DOMAIN d.groups |-> ExportedGroup(d.groups[i])] ELSE <<>>,
     endpoints |-> [i \in DOMAIN d.endpoints |-> ExportedDirectEndpoint(d.endpoints[i])],
     business |-> IF groups THEN ExportedBusiness(d) ELSE NoBusiness,
     registration |-> d.registration,
     metadata |-> d.metadata,
     config |-> Nothing]
-----------------------------------------------------------------------------
(* The export that is shown and stored: sensitive texts are emptied.       *)

Emptied(object, sensitive) == [k \in DOMAIN object |-> IF k \in sensitive THEN Blank ELSE object[k]]

\* _is_sensitive_key, for the keys a document may have; contactToken stands for
\* what a team calls its own metadata.
SensitiveKeys ==
    {"signingPrivateKeyPath", "privateKeyPath", "contactToken",
     "pis_creditorAccount_identification", "pis_internationalCreditorAccount_identification",
     "cbpii_debtorAccount_identification", "vrp_creditorAccount_identification"}

\* The runtime inputs that a catalogue marks sensitive.
SensitiveInputs == {"accessToken", "invalidAccessToken", "accessTokenRef", "debtorAccountIdentification"}

\* _safe_json_object: at every depth, whatever section the key is in.  The
\* account ids of AIS are put back (_restore_ais_business_account_ids).
EmptiedDocument(written, sensitive_inputs) ==
    LET emptied(object) == Emptied(object, SensitiveKeys \union sensitive_inputs) IN
    [written EXCEPT !.environment = emptied(@),
                    !.mtls = emptied(@),
                    !.registration = emptied(@),
                    !.metadata = emptied(@),
                    !.business.sections = emptied(@),
                    !.business.runtimeInputs = emptied(@)]

\* safe_test_plan_snapshot with _restore_dcr_file_references
SafeDocument(d, sensitive_inputs) ==
    LET written == ExportedDocument(d)
        emptied == EmptiedDocument(written, sensitive_inputs) IN
    IF d.family # "OBL_DCR" THEN emptied
    ELSE [emptied EXCEPT !.environment = Restriction(d.environment, {"signingPrivateKeyPath"}) @@ @,
                         !.mtls = Restriction(d.mtls, {"privateKeyPath"}) @@ @]
-----------------------------------------------------------------------------
(* Validation.                                                             *)

\* CANONICAL_TEST_PLAN_JSON_SCHEMA: what it asks beyond being well formed.
SchemaRefuses(r) ==
    \/ r.family \notin Families
    \/ IF UsesGroups(r.family)
       THEN \/ r.keys # {"resourceGroups", "businessTestData"}
            \/ ~({r.profile, r.securityProfile} \ {Absent} \subseteq DOMAIN ProfileOfName)
            \/ r.groups = <<>>
            \/ \E i \in DOMAIN r.groups : r.groups[i].id \notin {"canonical"} \X Apis
       ELSE \/ r.keys # {"endpoints", "dynamicClientRegistration"}
            \/ r.version # "3.4" \/ ~r.named
            \/ BadDirectEndpoints(r.endpoints)
            \/ ~({"softwareStatementAssertionPath", "registrationAudience"} \subseteq DOMAIN r.registration)
    \/ "clientAuthMethod" \in DOMAIN r.environment /\ r.environment.clientAuthMethod \in {Blank, Malformed}
    \/ r.mode \notin {Absent, "certification", "development"}

\* _configuration_issues
BadConfiguration(d, existing) ==
    /\ d.family = "OBL_DCR"
    /\ \/ BadDcrConfiguration(d.environment, d.mtls, d.registration, d.metadata)
       \/ ~(ReferencedFiles(DcrConfiguration(d.environment, d.mtls, d.registration, d.metadata)) \subseteq existing)

AnyFile == {"x", "y"}

SigningPaths == {"signingCertificatePath", "signingPrivateKeyPath"}

\* _parse_fapi_signing_config
BadSigning(signing) ==
    /\ DOMAIN signing # {}
    /\ \/ DOMAIN signing # {SigningFields[k] : k \in DOMAIN SigningFields}
       \/ \E k \in SigningPaths : signing[k] = RelativePath
       \/ signing.tokenEndpointAuthMethod \notin {"private_key_jwt", "tls_client_auth"}

\* parse_model_bank_config of the runner's part of the config
BadRunnerConfig(config, existing) ==
    \/ "discoveryUrl" \in DOMAIN config.scalars /\ config.scalars.discoveryUrl # HttpsUrl
    \/ \E k \in DOMAIN config.oauth : config.oauth[k] = HttpUrl
    \/ \E k \in DOMAIN config.resourceServer : config.resourceServer[k] = HttpUrl
    \/ ("clientCertificatePath" \in DOMAIN config.tls) # ("clientPrivateKeyPath" \in DOMAIN config.tls)
    \/ \E k \in DOMAIN config.tls : config.tls[k] \notin existing
    \/ BadSigning(config.fapiSigning)

\* What compile_test_plan_document can answer; PlanCompiler models how.
Compilations == [refused : BOOLEAN, non_certifying : BOOLEAN, cases : BOOLEAN, signed : BOOLEAN]

\* _compiled_plan_issues: the issues that block a run.
BlockingIssues(d, c) ==
    {layer \in {"semantic", "security"} :
        \/ layer = "semantic" /\ ((c.non_certifying /\ d.mode # "development") \/ ~c.cases)
        \/ layer = "security" /\ c.signed /\ ~HasDiscoveryUrl(d.environment) /\ ~HasDiscoveryUrl(d.config.scalars)}

\* _execution_mode_issues and the non-certifying reasons, as warnings
Warnings(d, c) ==
    IF d.mode # "development" THEN {}
    ELSE {"execution"} \union (IF c.non_certifying THEN {"semantic"} ELSE {})

DcrInputs(d) ==
    IF d.family # "OBL_DCR" THEN EmptyObject
    ELSE ExecutionInputs(DcrConfiguration(d.environment, d.mtls, d.registration, d.metadata))
=============================================================================
