--------------------------- MODULE BuilderWizardMC ---------------------------
(***************************************************************************)
(* The checked instances of BuilderWizard: two Read/Write versions that    *)
(* offer different endpoints and features, one version without an          *)
(* executable catalogue, and dynamic client registration.                  *)
(***************************************************************************)
EXTENDS BuilderWizard

Point(ref, required, optional, kind, inputs, filters) ==
    [ref |-> ref, required |-> required, optional |-> optional, kind |-> kind, inputs |-> inputs, filters |-> filters,
     signed |-> kind # "none"]

AccountsPoint(optional) ==
    Point("accounts", {"basic"}, optional, "none", {"resourceBaseUrl", "consentedAccountId"}, {"fromBookingDateTime"})

PaymentInputs ==
    {"resourceBaseUrl"}
        \union {StructuredInput[k] : k \in ObjectFields.pis_creditorAccount \union ObjectFields.pis_instructedAmount}

PaymentsPoint == Point("payments", {}, {}, "domestic-payment", PaymentInputs, {})

OrdersPoint ==
    Point("orders", {}, {}, "domestic-standing-order",
          PaymentInputs \union {"pisFirstPaymentDateTime", "pisStandingOrderFrequencyV31"}, {})

Version(family, version, areas) == [family |-> family, version |-> version, areas |-> areas, backed |-> TRUE]

Specifications4 ==
    [v4 |-> Version("OBL_READ_WRITE", "4.0.1",
                    <<[api |-> "ais", endpoints |-> <<AccountsPoint({"detail"}), Point("parties", {}, {}, "none", {"resourceBaseUrl"}, {})>>],
                      [api |-> "pis", endpoints |-> <<PaymentsPoint>>]>>),
     v3 |-> Version("OBL_READ_WRITE", "3.1.11",
                    <<[api |-> "ais", endpoints |-> <<AccountsPoint({})>>], [api |-> "pis", endpoints |-> <<OrdersPoint, PaymentsPoint>>]>>),
     bare |-> [Version("OBL_READ_WRITE", "4.0", <<>>) EXCEPT !.backed = FALSE],
     dcr |-> Version("OBL_DCR", "3.4", <<>>)]

TwoSpecifications == Restriction(Specifications4, {"v4", "dcr"})

OneSpecification == Restriction(Specifications4, {"v4"})

Spellings ==
    [accounts |-> "accounts", parties |-> "parties", payments |-> "payments", orders |-> "orders",
     register |-> "register", read |-> "read"]

Ais == <<"ais", "accounts">>

Pis == <<"pis", "payments">>

Chosen(apis, endpoints, capabilities) ==
    [groups |-> {GroupId(a) : a \in apis}, endpoints |-> endpoints, capabilities |-> capabilities]

AccountScope == Chosen({"ais"}, {Ais}, {})

PaymentScope == Chosen({"pis"}, {Pis}, {})

ScopeForms ==
    {Chosen({"ais"}, {Ais, <<"ais", "parties">>}, {<<Ais, "detail">>, <<Ais, "basic">>}),
     Chosen({"ais", "pis"}, {Ais, Pis, <<"pis", "orders">>}, {}),
     Chosen({"ais"}, {Pis}, {}), Chosen({}, {<<"dcr", "read">>}, {}), AccountScope, PaymentScope}

Symmetries == Permutations(Tabs) \union Permutations(DraftIds)

SmallScopes == {AccountScope, PaymentScope}

NoDocuments == {}

Written(api, endpoints) == [id |-> <<"canonical", api>>, endpoints |-> endpoints]

At(ref, capabilities) == [spelling |-> ref, capabilities |-> capabilities]

Base ==
    [schemaVersion |-> "1.0", family |-> "OBL_READ_WRITE", named |-> FALSE, version |-> "4.0.1",
     profile |-> "FAPI1_ADVANCED", securityProfile |-> Absent, mode |-> "development",
     keys |-> {"resourceGroups", "businessTestData"}, environment |-> ("discoveryUrl" :> HttpsUrl),
     mtls |-> EmptyObject, groups |-> <<Written("ais", <<>>)>>, endpoints |-> <<>>, business |-> NoBusiness,
     registration |-> EmptyObject, metadata |-> EmptyObject, config |-> Nothing]

Grouped ==
    {[Base EXCEPT !.groups = g] :
        g \in {<<Written("pis", <<At("payments", <<>>)>>), Written("ais", <<At("accounts", <<"detail">>)>>)>>,
               <<Written("ais", <<At("accounts", <<"detail", "basic">>), At("parties", <<>>)>>)>>,
               <<Written("pis", <<>>)>>, <<Written("ais", <<At("orders", <<>>)>>)>>, <<Written("vrp", <<>>)>>}}

Signing == "clientAuthMethod" :> "private_key_jwt" @@ Everywhere(DOMAIN SigningFields, "y")

Secured ==
    {[Base EXCEPT !.environment = Everywhere({"clientId", "redirectUri", "resourceBaseUrl", "signingAlgorithm"}, "x") @@ d @@ Signing,
                  !.mtls = Everywhere({"certificatePath", "privateKeyPath"}, "x") @@ "enabled" :> "false"] :
        d \in {EmptyObject, "discoveryUrl" :> HttpsUrl}}
    \union {[Base EXCEPT !.environment = @ @@ "clientId" :> "y" @@ "signingKeyId" :> "x", !.mtls = ("caBundlePath" :> "x")]}

Supplied ==
    {[Base EXCEPT !.business =
        [NoBusiness EXCEPT !.sections = "ais_transactionFromDate" :> "y" @@ "pis_currencyOfTransfer" :> "x",
                           !.accountIds = a, !.runtimeInputs = r, !.inputs = ("consentedAccountId" :> "x")]] :
        a \in {<<[form |-> "string", id |-> "x"]>>, <<[form |-> "object", id |-> Absent]>>},
        r \in {EmptyObject, "resourceBaseUrl" :> "y"}}

Registrations ==
    {[Base EXCEPT !.family = "OBL_DCR", !.named = TRUE, !.version = "3.4", !.profile = Absent,
                  !.keys = {"endpoints", "dynamicClientRegistration"}, !.groups = <<>>,
                  !.environment = "discoveryUrl" :> HttpsUrl @@ "clientAuthMethod" :> "private_key_jwt" @@ e,
                  !.mtls = Everywhere({"certificatePath", "privateKeyPath"}, "x"),
                  !.endpoints = <<[spelling |-> "register", required |-> TRUE, locked |-> TRUE]>> \o p,
                  !.registration = Everywhere({"softwareStatementAssertionPath", "registrationAudience"}, "x"),
                  !.metadata = ("brandName" :> "x")] :
        e \in {Everywhere({"signingPrivateKeyPath", "signingKeyId"}, "x"), EmptyObject},
        p \in {<<>>, <<[spelling |-> "read", required |-> FALSE, locked |-> FALSE]>>}}

ImportDocuments == Grouped \union Secured \union Supplied \union Registrations

\* Bounds: an imported draft is edited twice, so that a page that was edited is
\* posted again; a second draft is made early, empty, and both are edited little.
SideTripsAreShort ==
    /\ (\E id \in DOMAIN session : Imported(session[id])) => clock <= 3
    /\ Cardinality(DOMAIN session) > 1 => clock <= 4
    /\ \A t \in Tabs :
          tabs[t] # Idle /\ tabs[t].id \notin DOMAIN session /\ DOMAIN session # {} =>
              tabs[t].input = Nothing /\ clock <= 2

Nowhere == {EmptyObject}

Found == {EmptyObject, [issuer |-> "y"]}
=============================================================================
