-------------------------- MODULE PlanValidationMC --------------------------
(***************************************************************************)
(* The checked documents of PlanValidation.                                *)
(***************************************************************************)
EXTENDS CanonicalPlan

At(s, x) == [spelling |-> s, capabilities |-> x]

Written(id, list) == [id |-> id, endpoints |-> list]

Whole == <<Written(<<"canonical", "ais">>, <<>>)>>

Keyed(keys, value) == [k \in keys |-> value]

\* A document that loads.
Base ==
    [schemaVersion |-> "1.0", family |-> "OBL_READ_WRITE", named |-> FALSE, version |-> "4.0.1",
     profile |-> "FAPI1_ADVANCED", securityProfile |-> Absent, mode |-> "certification",
     keys |-> {"resourceGroups", "businessTestData"}, environment |-> ("discoveryUrl" :> HttpsUrl),
     mtls |-> EmptyObject, groups |-> Whole, endpoints |-> <<>>, business |-> NoBusiness,
     registration |-> EmptyObject, metadata |-> EmptyObject, config |-> Nothing]

Method == "clientAuthMethod" :> "private_key_jwt"

SigningPart == DOMAIN SigningFields \ {"clientAuthMethod"}

\* Security environments: with and without a discovery URL, complete and
\* incomplete oauth, signing and mtls settings.
Environments ==
    {d @@ Keyed(o, "x") @@ s @@ b :
        d \in {EmptyObject, "discoveryUrl" :> HttpsUrl, "discoveryUrl" :> HttpUrl},
        o \in SUBSET {"clientId", "redirectUri", "issuer", "resourceBaseUrl", "signingAlgorithm"},
        s \in {EmptyObject, Method, Method @@ Keyed(SigningPart, "x"), Keyed(SigningPart, "x"),
               "clientAuthMethod" :> "client_secret_jwt" @@ Keyed(SigningPart, "x")},
        b \in {EmptyObject, "name" :> "x" @@ "clientAuthSigningAlgorithm" :> "x", "redirectUri" :> Blank}}

Mutuals ==
    {EmptyObject, Keyed(MtlsPaths, "x"), Keyed({"certificatePath", "privateKeyPath"}, "x") @@ "enabled" :> "false",
     "certificatePath" :> "x", "caBundlePath" :> Blank}

Businesses ==
    {[NoBusiness EXCEPT !.sections = s, !.accountIds = a, !.runtimeInputs = r, !.inputs = i] :
        s \in {EmptyObject, "pis_currencyOfTransfer" :> "x", "ais_transactionFromDate" :> "y" @@ "pis_currencyOfTransfer" :> Blank},
        a \in {<<>>, <<[form |-> "string", id |-> "x"]>>, <<[form |-> "object", id |-> Absent], [form |-> "string", id |-> "y"]>>},
        r \in {EmptyObject, "pisCurrencyOfTransfer" :> "x", "consentedAccountId" :> "y", "resourceBaseUrl" :> "y"},
        i \in {EmptyObject, "pisCurrencyOfTransfer" :> "x", "consentedAccountId" :> "x" @@ "fromBookingDateTime" :> "y"}}

GroupLists ==
    {<<>>, Whole, <<Written(<<"builder", "ais">>, <<>>)>>, <<Written(<<"canonical", "pis">>, <<At("payments", <<"c">>)>>)>>,
     <<Written(<<"canonical", "ais">>, <<At("Accounts", <<"c", "d">>), At("payments", <<>>)>>), Written(<<"canonical", "vrp">>, <<>>)>>,
     <<Written(<<"canonical", "ais">>, <<At("Accounts", <<>>), At("accounts", <<>>)>>)>>,
     <<Written(<<"canonical", "ais">>, <<At("accounts", <<"c", "c">>)>>)>>,
     <<Written(<<"canonical", "ais">>, <<>>), Written(<<"canonical", "ais">>, <<At("accounts", <<>>)>>)>>}

ReadWriteDocuments ==
    {[Base EXCEPT !.environment = e] : e \in Environments}
    \union {[Base EXCEPT !.environment = e, !.mtls = t] : e \in {EmptyObject, "discoveryUrl" :> HttpsUrl}, t \in Mutuals}
    \union {[Base EXCEPT !.environment = e, !.business = b] :
              e \in {"discoveryUrl" :> HttpsUrl, "resourceBaseUrl" :> "x"}, b \in Businesses}
    \union {[Base EXCEPT !.groups = g, !.mode = m] : g \in GroupLists, m \in {Absent, "certification", "development", "x"}}
    \union {[Base EXCEPT !.version = v, !.profile = p, !.securityProfile = q] :
              v \in {"3.1.11", "3.4"}, p, q \in {Absent, "FAPI1_ADVANCED", "fapi1-advanced", "FAPI2", "x"}}
    \union {[Base EXCEPT !.keys = k] : k \in SUBSET {"resourceGroups", "businessTestData", "endpoints"}}

Direct(s, flag) == [spelling |-> s, required |-> flag, locked |-> flag]

DcrBase ==
    [Base EXCEPT !.family = "OBL_DCR", !.named = TRUE, !.version = "3.4", !.profile = Absent,
                 !.keys = {"endpoints", "dynamicClientRegistration"}, !.groups = <<>>,
                 !.environment = Keyed({"signingPrivateKeyPath", "signingKeyId"}, "x") @@ Method @@ "discoveryUrl" :> HttpsUrl,
                 !.mtls = Keyed({"certificatePath", "privateKeyPath"}, "x"),
                 !.endpoints = <<Direct("register", TRUE)>>,
                 !.registration = Keyed({"softwareStatementAssertionPath", "registrationAudience"}, "x")]

DcrDocuments ==
    {[DcrBase EXCEPT !.mtls = m, !.registration = g @@ DcrBase.registration, !.environment = e @@ DcrBase.environment] :
        m \in Mutuals \union {"privateKeyPath" :> "x" @@ "certificatePath" :> RelativePath},
        g \in {EmptyObject, "signingCertificatePath" :> "y", "disableKeepAlive" :> "true", "registrationAudience" :> Malformed,
               "redirectUrisOverride" :> "x" @@ "registrationIssuerOverride" :> "x"},
        e \in {EmptyObject, "clientAuthSigningAlgorithm" :> "y" @@ "name" :> "x", "signingPrivateKeyPath" :> "y", "signingKeyId" :> Blank}}
    \union {[DcrBase EXCEPT !.environment = Restriction(DcrBase.environment, DOMAIN DcrBase.environment \ {k})] : k \in DOMAIN DcrBase.environment}
    \union {[DcrBase EXCEPT !.endpoints = e, !.metadata = d, !.mode = m] :
              e \in {<<>>, <<Direct("read", FALSE)>>, <<Direct("register", TRUE), Direct("read", TRUE)>>,
                     <<Direct("read", FALSE), Direct("register", TRUE), Direct("delete", FALSE)>>,
                     <<Direct("register", TRUE), Direct("register", TRUE)>>},
              d \in {EmptyObject, "brandName" :> "x" @@ "team" :> Blank @@ "contactToken" :> "x", "brandName" :> Blank}, m \in {Absent, "development"}}
    \union {[DcrBase EXCEPT !.keys = {"endpoints"}], [DcrBase EXCEPT !.named = FALSE], [DcrBase EXCEPT !.family = "other"]}

LegacyConfigs ==
    {[scalars |-> d @@ s, oauth |-> o, fapiSigning |-> f, tls |-> t, resourceServer |-> r,
      sections |-> c, accountIds |-> a, runtimeInputs |-> i, inputs |-> EmptyObject] :
        d \in {EmptyObject, "discoveryUrl" :> HttpsUrl},
        s \in {EmptyObject, "resourceBaseUrl" :> "x", "region" :> "x" @@ "resultOutputPath" :> "y"},
        o \in {EmptyObject, Keyed({"clientId", "redirectUri", "requestObjectSigningAlg"}, "x"), "resourceBaseUrl" :> "y",
               Keyed({"clientId", "redirectUri", "resourceBaseUrl"}, "x")},
        f \in {EmptyObject, "kid" :> "x", "tokenEndpointAuthMethod" :> "private_key_jwt" @@ Keyed({SigningFields[k] : k \in DOMAIN SigningFields}, "x")},
        t \in {EmptyObject, Keyed({"clientCertificatePath", "clientPrivateKeyPath"}, "x") @@ "caBundlePath" :> "y"},
        r \in {EmptyObject, "baseUrl" :> "x", "baseUrl" :> "y"},
        c \in {EmptyObject, "vrp_validToDateTime" :> "x"},
        a \in {<<>>, <<"y", Absent>>},
        i \in {EmptyObject, "vrpValidToDateTime" :> "x", "vrpValidToDateTime" :> "y"}}

Legacy == [Base EXCEPT !.schemaVersion = "v2", !.profile = "fapi1-advanced", !.keys = {}, !.environment = EmptyObject]

LegacyBase == CHOOSE c \in LegacyConfigs : DOMAIN c.scalars = {} /\ DOMAIN c.oauth = {}

LegacyDocuments ==
    {[Legacy EXCEPT !.config = c] : c \in LegacyConfigs}
    \union {[Legacy EXCEPT !.config = LegacyBase, !.groups = g, !.profile = p] :
              p \in {"fapi1-advanced", "fapi2", "x"},
              g \in GroupLists \union {<<Written(<<"slug", "ais">>, <<At("accounts", <<>>)>>), Written(<<"canonical", "ais">>, <<>>)>>,
                                       <<Written(<<"slug", "other">>, <<At("accounts", <<>>)>>)>>}}

LoadedDocuments == ReadWriteDocuments \union DcrDocuments
=============================================================================
