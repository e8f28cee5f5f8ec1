------------------------ MODULE DcrPlanConfiguration ------------------------
(***************************************************************************)
(* conformance/plan_configuration.py: the typed configuration of a dynamic *)
(* client registration plan, the flat runtime inputs it is handed to the   *)
(* run as, and the configuration the run rebuilds from them.               *)
(*                                                                         *)
(* A flat input is named by a pair: its prefix and its field.  The flags   *)
(* useNumericOidSubjectDn and disableKeepAlive are the texts "true" and    *)
(* "false".                                                                *)
(***************************************************************************)
EXTENDS PlanDocument

RelativePath == "relative"

\* Not a Base62 identifier, not a subject DN, not a list of redirect URIs.
Malformed == "malformed"

SecurityFields == {"discoveryUrl", "signingPrivateKeyPath", "signingKeyId", "clientAuthMethod", "clientAuthSigningAlgorithm"}

MtlsPaths == {"certificatePath", "privateKeyPath", "caBundlePath"}

RegistrationFields ==
    {"softwareStatementAssertionPath", "registrationAudience", "registrationIssuerOverride", "redirectUrisOverride",
     "signingCertificatePath", "transportCertificateSubjectDnOverride", "useNumericOidSubjectDn", "disableKeepAlive"}

MetadataFields == {"aspspName", "brandName", "environmentName"}

\* _optional_string and _optional_absolute_path
BadTexts(object, fields, paths) ==
    \E k \in DOMAIN object :
        \/ k \in fields /\ object[k] = Blank
        \/ k \in paths /\ object[k] = RelativePath

BadSharedConfiguration(environment, mtls, metadata) ==
    \/ BadTexts(environment, SecurityFields, {"signingPrivateKeyPath"})
    \/ "discoveryUrl" \in DOMAIN environment /\ environment.discoveryUrl # HttpsUrl
    \/ BadTexts(mtls, MtlsPaths, MtlsPaths)
    \/ ("certificatePath" \in DOMAIN mtls) # ("privateKeyPath" \in DOMAIN mtls)
    \/ "clientAuthMethod" \in DOMAIN environment /\ environment.clientAuthMethod = Malformed
    \/ BadTexts(metadata, MetadataFields, {})

\* The checks of the audience, the subject DN, the redirect URIs and the flags.
BadValues(registration) == \E k \in DOMAIN registration : registration[k] = Malformed

\* parse_dcr_plan_configuration
BadDcrConfiguration(environment, mtls, registration, metadata) ==
    \/ BadSharedConfiguration(environment, mtls, metadata)
    \/ ~({"discoveryUrl", "signingPrivateKeyPath", "signingKeyId", "clientAuthMethod"} \subseteq DOMAIN environment)
    \/ ~({"certificatePath", "privateKeyPath"} \subseteq DOMAIN mtls)
    \/ ~({"softwareStatementAssertionPath", "registrationAudience"} \subseteq DOMAIN registration)
    \/ BadTexts(registration, RegistrationFields, {"softwareStatementAssertionPath", "signingCertificatePath"})
    \/ BadValues(registration)

\* Fields outside the configuration are ignored; the two flags have a default.
DcrConfiguration(environment, mtls, registration, metadata) ==
    [environment |-> Restriction(environment, SecurityFields),
     mtls |-> Restriction(mtls, MtlsPaths),
     registration |->
        Restriction(registration, RegistrationFields)
            @@ ("useNumericOidSubjectDn" :> "false") @@ ("disableKeepAlive" :> "false"),
     metadata |-> Restriction(metadata, MetadataFields)]

FlatInputs(prefix, object) == [k \in {prefix} \X DOMAIN object |-> object[k[2]]]

\* Mutant of ExecutionInputs: the mtls files lose their own prefix.
ExecutionInputsFlat(config) ==
    FlatInputs("securityEnvironment", config.environment @@ config.mtls)
        @@ FlatInputs("dynamicClientRegistration", config.registration)

\* dcr_execution_runtime_inputs; the reporting metadata is not an input.
ExecutionInputs(config) ==
    FlatInputs("securityEnvironment", config.environment)
        @@ FlatInputs("securityEnvironment.mtls", config.mtls)
        @@ FlatInputs("dynamicClientRegistration", config.registration)

\* The object below a prefix.
Below(inputs, prefix) ==
    [k \in {id[2] : id \in {i \in DOMAIN inputs : i[1] = prefix}} |-> inputs[<<prefix, k>>]]

\* parse_dcr_execution_runtime_inputs
BadExecutionInputs(inputs) ==
    BadDcrConfiguration(Below(inputs, "securityEnvironment"), Below(inputs, "securityEnvironment.mtls"),
                        Below(inputs, "dynamicClientRegistration"), EmptyObject)

RebuiltConfiguration(inputs) ==
    DcrConfiguration(Below(inputs, "securityEnvironment"), Below(inputs, "securityEnvironment.mtls"),
                     Below(inputs, "dynamicClientRegistration"), EmptyObject)

\* validate_dcr_file_references: the files a configuration names.
ReferencedFiles(config) ==
    {config.mtls[k] : k \in DOMAIN config.mtls}
        \union {config.environment.signingPrivateKeyPath}
        \union {config.registration[k] :
                  k \in {"softwareStatementAssertionPath", "signingCertificatePath"} \intersect DOMAIN config.registration}
=============================================================================
