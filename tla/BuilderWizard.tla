---------------------------- MODULE BuilderWizard ----------------------------
(***************************************************************************)
(* The browser plan builder (conformance/api/ui_views.py) over the drafts  *)
(* of one session (conformance/api/builder_draft_store.py).                *)
(*                                                                         *)
(* A browser tab shows a page of a draft and later posts it, edited or as  *)
(* shown.  The handler loads the whole session when it starts (Post) and   *)
(* writes the whole session when it answers (the Save actions), so what    *)
(* another tab saved in between is overwritten.  Drafts are kept by the    *)
(* time they were updated, at most MaxDrafts of them.                      *)
(***************************************************************************)
EXTENDS BuilderPages

CONSTANTS
    Tabs,
    DraftIds,
    Values,      \* what a user types into the fields of a page
    Scopes,      \* selections a user posts
    Documents,   \* documents a user imports
    Findings,    \* what a discovery document may say
    Pages,       \* the pages a user visits
    MaxDrafts,   \* _MAX_SESSION_DRAFTS
    MaxSaves     \* bound on the number of saves

VARIABLES
    session,  \* draft id |-> draft
    clock,    \* the number of saves so far
    tabs,     \* what each tab is doing
    launched  \* the last launch: the plan reviewed and the plan run

vars == <<session, clock, tabs, launched>>

EmptyConfig == CanonicalConfig(EmptyObject, EmptyObject, NoBusiness)

\* BuilderDraft.create
NewDraft ==
    [boundary |-> Absent, profile |-> "fapi1-advanced", scope |-> Selection, config |-> EmptyConfig,
     environment |-> EmptyObject, mtls |-> EmptyObject, business |-> NoBusiness, registration |-> EmptyObject,
     metadata |-> EmptyObject, mode |-> "certification", discovery |-> EmptyObject, updated |-> 0]

Idle == [at |-> "idle"]

-----------------------------------------------------------------------------
(* SessionBuilderDraftStore.save                                           *)

\* The most recently updated drafts.
Kept(drafts) ==
    {i \in DOMAIN drafts : Cardinality({j \in DOMAIN drafts : drafts[j].updated > drafts[i].updated}) < MaxDrafts}

SavedSession(drafts, id, draft) ==
    LET all == (id :> [draft EXCEPT !.updated = clock + 1]) @@ drafts IN Restriction(all, Kept(all))

-----------------------------------------------------------------------------
(* What the pages accept.                                                  *)

IsDcrDraft(d) == d.boundary # Absent /\ Offer[d.boundary].family = "OBL_DCR"

\* A page redirects to an earlier one, or reports that the draft has no document.
DraftPage(page, d) ==
    \/ page = "boundary"
    \/ d.boundary # Absent /\ page \in {"discovery", "security"}
    \/ d.boundary # Absent /\ page = "scope" /\ ~Blocked(d.boundary)

\* The business page is for resource groups; it compiles the document when
\* AIS is selected, the runtime and launch pages always.
ShowsDocument(page, d, document) ==
    /\ page = "business" => ~IsDirect(d.boundary) /\ d.scope.groups # {}
    /\ page # "business" \/ "ais" \in SelectedApis(document) => ~CompileRefuses(d.boundary, document)

DocumentPage(page, d) ==
    /\ page \in {"business", "runtime", "launch"}
    /\ d.boundary # Absent
    /\ ~Unbuildable(d)
    /\ ShowsDocument(page, d, DocumentOf(d))

Reachable(page, d) == DraftPage(page, d) \/ DocumentPage(page, d)

Everywhere(S, v) == [k \in S |-> v]

\* A page as it is shown.
ShownForm(page, d) ==
    CASE page = "boundary" -> [boundary |-> d.boundary]
      [] page = "scope" -> d.scope
      [] page = "discovery" -> IF HasDiscoveryUrl(d.config.scalars) THEN d.config.scalars.discoveryUrl ELSE Absent
      [] page = "security" -> IF IsDcrDraft(d) THEN DcrInitial(d) ELSE SecurityInitial(d)
      [] page = "business" -> BusinessInitial(d.config)
      [] page = "runtime" -> RuntimeInitial(d.boundary, DocumentOf(d))
      [] OTHER -> Absent

SecurityEdits(form) ==
    {[form EXCEPT !.oauth = Everywhere({"clientId", "redirectUri", "issuer"}, v) @@ @] : v \in Values}
        \union {[form EXCEPT !.resourceServer = ("baseUrl" :> v)] : v \in Values}
        \union {[form EXCEPT !.tls = Everywhere({"clientCertificatePath", "clientPrivateKeyPath"}, v)] : v \in Values}
        \union {[form EXCEPT !.fapiSigning = ("tokenEndpointAuthMethod" :> m) @@ Everywhere(s, "x")] :
                  m \in {"private_key_jwt", "client_secret_jwt"},
                  s \in {SigningFormFields, SigningFormFields \ {"kid"}}}
        \union {[form EXCEPT !.tls = ("clientCertificatePath" :> "x")]}

DcrEdits(form) ==
    {[form EXCEPT !.environment = ("clientAuthMethod" :> m) @@ Everywhere({"signingPrivateKeyPath", "signingKeyId"}, v) @@ @,
                  !.mtls = Everywhere({"certificatePath", "privateKeyPath"}, v) @@ @,
                  !.registration = Everywhere({"softwareStatementAssertionPath", "registrationAudience"}, v) @@ @,
                  !.mode = "development"] :
        m \in {"private_key_jwt", "client_secret_basic", Malformed}, v \in Values \union {RelativePath, Blank}}

\* The friendly fields are edited, and the JSON fields are left or cleared, or
\* edited in their place.
BusinessEdits(form) ==
    LET fields == Everywhere(UNION {FieldsOf(api) : api \in Apis}, "x") IN
    {[form EXCEPT !.fields = Everywhere(DOMAIN fields, v), !.account = v] : v \in Values}
        \union {[form EXCEPT !.fields = Everywhere(DOMAIN fields, v), !.account = v,
                             !.json = EmptyObject, !.accountsJson = <<>>] : v \in Values}
        \union {[form EXCEPT !.json = [o \in DOMAIN ObjectFields |-> Everywhere(ObjectFields[o], v)],
                             !.accountsJson = <<v>>] : v \in Values}
        \union {[form EXCEPT !.fields = EmptyObject, !.json = EmptyObject, !.accountsJson = <<>>]}

\* What a tab may post from a page of draft d.
Edits(page, d, shown) ==
    CASE page = "boundary" -> [boundary : Boundaries]
      [] page = "scope" -> Scopes
      [] page = "discovery" -> {shown, Absent, HttpsUrl, HttpUrl}
      [] page = "security" -> {shown} \union (IF IsDcrDraft(d) THEN DcrEdits(shown) ELSE SecurityEdits(shown))
      [] page = "business" -> {shown} \union BusinessEdits(shown)
      [] page = "runtime" -> {shown} \union {Everywhere(Prompts(d.boundary, DocumentOf(d)), v) : v \in Values}
      [] OTHER -> {Absent}

Inputs(page, d) == Edits(page, d, ShownForm(page, d))

BadDiscovery(d, url) == url = HttpUrl \/ (IsDcrDraft(d) /\ url = Absent)

BadSecurity(d, form) == BadSecurityForm(form) \/ BadRunnerConfig(MergeSecurity(d.config, form), AnyFile)

\* What a page refuses of an input.
Refuses(page, d, input) ==
    CASE page = "scope" -> BadScope(d.boundary, input)
      [] page = "discovery" -> BadDiscovery(d, input)
      [] page = "security" -> IF IsDcrDraft(d) THEN BadDcrForm(input) ELSE BadSecurity(d, input)
      [] page = "business" -> BadBusinessForm(input, d.boundary, DocumentOf(d))
      [] page = "launch" -> ~LaunchSupported(d, AnyFile)
      [] OTHER -> FALSE
-----------------------------------------------------------------------------
(* The tabs.                                                               *)

Init ==
    /\ session = EmptyObject
    /\ clock = 0
    /\ tabs = [t \in Tabs |-> Idle]
    /\ launched = Nothing

\* A page of a draft is shown.
Open(t) ==
    /\ tabs[t].at = "idle"
    /\ \E id \in DOMAIN session, page \in Pages :
         /\ Reachable(page, session[id])
         /\ tabs' = [tabs EXCEPT ![t] = [at |-> "open", page |-> page, id |-> id, shown |-> session[id]]]
    /\ UNCHANGED <<session, clock, launched>>

\* The page is posted and its handler loads the session.  The security page of
\* one specification is not posted to another.
Post(t) ==
    /\ tabs[t].at = "open"
    /\ clock < MaxSaves
    /\ LET tab == tabs[t] IN
       /\ tab.page = "security" /\ tab.id \in DOMAIN session => IsDcrDraft(session[tab.id]) = IsDcrDraft(tab.shown)
       /\ \E input \in Inputs(tab.page, tab.shown) :
            tabs' = [tabs EXCEPT ![t] = [at |-> "posted", page |-> tab.page, id |-> tab.id, shown |-> tab.shown,
                                         input |-> input, seen |-> session]]
    /\ UNCHANGED <<session, clock, launched>>

\* A request that creates a draft; a document is imported, or there is none.
PostNew(t) ==
    /\ tabs[t].at = "idle"
    /\ clock < MaxSaves
    /\ \E id \in DraftIds \ DOMAIN session, document \in Documents \union {Nothing} :
         /\ \A u \in Tabs : tabs[u] # Idle => tabs[u].id # id
         /\ tabs' = [tabs EXCEPT ![t] = [at |-> "posted", page |-> "new", id |-> id, shown |-> NewDraft,
                                          input |-> document, seen |-> session]]
    /\ UNCHANGED <<session, clock, launched>>

\* The draft a posted page is about, as its handler loaded it.
Loaded(t) == tabs[t].seen[tabs[t].id]

Posted(t, page) ==
    /\ tabs[t].at = "posted" /\ tabs[t].page = page
    /\ tabs[t].id \in DOMAIN tabs[t].seen

Accepted(t) ==
    /\ Posted(t, tabs[t].page)
    /\ Reachable(tabs[t].page, Loaded(t))
    /\ ~Refuses(tabs[t].page, Loaded(t), tabs[t].input)

\* The draft is saved, the session with it, and the page is left.
Save(t, draft) ==
    /\ session' = SavedSession(tabs[t].seen, tabs[t].id, draft)
    /\ clock' = clock + 1
    /\ tabs' = [tabs EXCEPT ![t] = Idle]
    /\ UNCHANGED launched

\* builder_new
SaveNew(t) ==
    /\ tabs[t].at = "posted" /\ tabs[t].page = "new" /\ tabs[t].input = Nothing
    /\ Save(t, NewDraft)

BoundaryOf(d) == CHOOSE b \in Boundaries : Offer[b].family = d.family /\ Offer[b].version = d.version

\* What builder_import refuses; its documents are canonical.
ImportRefused(raw) ==
    SchemaRefuses(raw) \/ BadCanonical(raw) \/ CompileRefuses(BoundaryOf(raw), ParsedCanonical(raw))

ImportedDraft(d) ==
    LET b == BoundaryOf(d) IN
    [NewDraft EXCEPT !.boundary = b, !.profile = DerivedProfile(d.family), !.scope = ScopeOfDocument(b, d),
                     !.config = d.config, !.environment = d.environment, !.mtls = d.mtls, !.business = d.business,
                     !.registration = d.registration, !.metadata = d.metadata, !.mode = d.mode]

\* builder_import
SaveImport(t) ==
    /\ tabs[t].at = "posted" /\ tabs[t].page = "new" /\ tabs[t].input # Nothing
    /\ ~ImportRefused(tabs[t].input)
    /\ Save(t, ImportedDraft(ParsedCanonical(tabs[t].input)))

\* builder_catalogue_boundary
SaveBoundary(t) ==
    /\ Posted(t, "boundary")
    /\ LET b == tabs[t].input.boundary IN
       Save(t, [Loaded(t) EXCEPT !.boundary = b, !.profile = DerivedProfile(Offer[b].family),
                                 !.scope = ScopeAfterBoundary(b, @)])

\* builder_scope
SaveScope(t) ==
    /\ Posted(t, "scope") /\ DraftPage("scope", Loaded(t))
    /\ ~BadScope(Loaded(t).boundary, tabs[t].input)
    /\ Save(t, [Loaded(t) EXCEPT !.scope = AcceptedScope(Loaded(t).boundary, tabs[t].input)])

\* builder_config
SaveBusiness(t) ==
    /\ Posted(t, "business") /\ DocumentPage("business", Loaded(t))
    /\ ~BadBusinessForm(tabs[t].input, Loaded(t).boundary, DocumentOf(Loaded(t)))
    /\ Save(t, [Loaded(t) EXCEPT !.config = MergeBusiness(@, tabs[t].input, SelectedApis(DocumentOf(Loaded(t))))])

\* builder_discovery_config: the discovery document is fetched before the draft
\* is saved; what it says replaces what an earlier one said.
SaveDiscovery(t) ==
    /\ Posted(t, "discovery") /\ DraftPage("discovery", Loaded(t))
    /\ ~BadDiscovery(Loaded(t), tabs[t].input)
    /\ \E found \in IF tabs[t].input = Absent THEN {EmptyObject} ELSE Findings :
         Save(t, [Loaded(t) EXCEPT !.config = MergeDiscovery(@, tabs[t].input), !.discovery = found])

\* builder_security_config of a Read/Write draft
SaveSecurity(t) ==
    /\ Posted(t, "security") /\ DraftPage("security", Loaded(t)) /\ ~IsDcrDraft(Loaded(t))
    /\ ~BadSecurity(Loaded(t), tabs[t].input)
    /\ Save(t, [Loaded(t) EXCEPT !.config = MergeSecurity(@, tabs[t].input)])

\* builder_security_config of a registration draft: the config's own security
\* sections are dropped.
SaveRegistration(t) ==
    /\ Posted(t, "security") /\ DraftPage("security", Loaded(t)) /\ IsDcrDraft(Loaded(t))
    /\ ~BadDcrForm(tabs[t].input)
    /\ LET form == tabs[t].input IN
       Save(t, [Loaded(t) EXCEPT
                  !.config = [@ EXCEPT !.oauth = EmptyObject, !.resourceServer = EmptyObject,
                                       !.fapiSigning = EmptyObject, !.tls = EmptyObject],
                  !.environment = DcrEnvironment(form), !.mtls = DcrMtls(form),
                  !.registration = DcrRegistration(form), !.metadata = DcrMetadata(form), !.mode = form.mode])

\* builder_runtime_config
SaveRuntime(t) ==
    /\ Posted(t, "runtime") /\ DocumentPage("runtime", Loaded(t))
    /\ LET d == Loaded(t) IN
       Save(t, [d EXCEPT !.config = MergeRuntime(@, tabs[t].input, Prompts(d.boundary, DocumentOf(d)))])

\* builder_launch hands the export of the reviewed document to the preparation.
Launched(b, reviewed, written) ==
    IF LaunchRefused(b, written, AnyFile) THEN [reviewed |-> reviewed, refused |-> TRUE, run |-> Nothing]
    ELSE [reviewed |-> reviewed, refused |-> FALSE, run |-> ParsedCanonical(written)]

Launch(t) ==
    /\ Posted(t, "launch") /\ DocumentPage("launch", Loaded(t))
    /\ LaunchSupported(Loaded(t), AnyFile)
    /\ LET d == Loaded(t) IN
       launched' = Launched(d.boundary, DocumentOf(d), ExportedDocument(DocumentOf(d)))
    /\ tabs' = [tabs EXCEPT ![t] = Idle]
    /\ UNCHANGED <<session, clock>>

\* The request is answered with an error or a redirect, and saves nothing.
Refuse(t) ==
    /\ tabs[t].at = "posted"
    /\ IF tabs[t].page = "new" THEN tabs[t].input # Nothing /\ ImportRefused(tabs[t].input)
       ELSE ~Accepted(t)
    /\ tabs' = [tabs EXCEPT ![t] = Idle]
    /\ UNCHANGED <<session, clock, launched>>

Next ==
    \E t \in Tabs :
        \/ Open(t) \/ Post(t) \/ PostNew(t)
        \/ SaveNew(t) \/ SaveImport(t) \/ SaveBoundary(t) \/ SaveScope(t) \/ SaveBusiness(t)
        \/ SaveDiscovery(t) \/ SaveSecurity(t) \/ SaveRegistration(t) \/ SaveRuntime(t)
        \/ Launch(t) \/ Refuse(t)

Spec == Init /\ [][Next]_vars

-----------------------------------------------------------------------------
(* Properties.                                                             *)

\* Whatever the tabs do, and in whichever order their requests are answered,
\* the scope of a draft is one its specification offers: a document can be
\* built from it and compiled (plan_document_from_draft finds no stale id).
ScopeBelongsToTheBoundary ==
    \A id \in DOMAIN session :
        LET d == session[id] IN
        d.boundary # Absent =>
            /\ ~StaleScope(d.boundary, d.scope)
            /\ ~Unbuildable(d) => ~CompileRefuses(d.boundary, DocumentOf(d))

\* A request is answered that no other request overlapped.
Alone(t) == tabs[t].at = "posted" /\ tabs'[t].at = "idle" /\ tabs[t].seen = session

\* What each page may change of a draft and of its config.
OwnParts ==
    [boundary |-> {"boundary", "profile", "scope"}, scope |-> {"scope"}, business |-> {"config"},
     discovery |-> {"config", "discovery"}, runtime |-> {"config"}, launch |-> {}, new |-> {},
     security |-> {"config", "environment", "mtls", "registration", "metadata", "mode"}]

OwnConfig ==
    [business |-> {"sections", "accountIds"}, discovery |-> {"scalars"}, runtime |-> {"inputs"},
     security |-> {"oauth", "resourceServer", "fapiSigning", "tls"}, boundary |-> {}, scope |-> {}, launch |-> {}, new |-> {}]

\* A request that no other overlapped changes its own draft only, and of it only
\* what its page is about: the merges keep the sections of the other pages.
PagesKeepToThemselves ==
    [][\A t \in Tabs : Alone(t) =>
        \A id \in DOMAIN session \intersect DOMAIN session' :
            LET before == session[id]
                after == session'[id]
                page == tabs[t].page IN
            IF id # tabs[t].id THEN after = before
            ELSE /\ \A part \in DOMAIN before \ (OwnParts[page] \union {"updated"}) : after[part] = before[part]
                 /\ \A key \in DOMAIN before.config \ OwnConfig[page] : after.config[key] = before.config[key]]_vars

Keeps(before, after) == \A k \in DOMAIN before : k \in DOMAIN after /\ after[k] = before[k]

KeepsBusiness(before, after) ==
    /\ Keeps(before.runtime_inputs, after.runtime_inputs)
    /\ Keeps(before.business.sections, after.business.sections)
    /\ before.business.accountIds = after.business.accountIds
    /\ Keeps(before.registration, after.registration) /\ Keeps(before.metadata, after.metadata)

Without(object, S) == Restriction(object, DOMAIN object \ S)

\* The part of the environment that was not imported and that a post of the
\* security page does not replace.  The page of a registration replaces all but
\* the discovery URL that was saved.
NotImported(draft, environment) ==
    IF IsDcrDraft(draft) THEN Restriction(environment, DOMAIN draft.config.scalars)
    ELSE Without(environment, DOMAIN OverriddenSigning)

KeepsSecurity(before, after) == Keeps(before.environment, after.environment) /\ Keeps(before.mtls, after.mtls)

ShownAsImported(draft) ==
    [environment |-> FilledOf(draft.environment, DcrSecurityFields), mtls |-> FilledOf(draft.mtls, MtlsPaths)]

\* A page is posted as it was shown and saved.
Resaved(t, page) ==
    /\ Alone(t) /\ tabs[t].page = page /\ session' # session
    /\ ~Unbuildable(Loaded(t))
    /\ tabs[t].input = ShownForm(page, Loaded(t))

\* Posting a page as it was shown loses nothing: what the plan said before it
\* says after, though values found by discovery may be added.  There is one
\* exception.  Of a draft imported with a security environment the security page
\* shows the imported key, key id, authentication method and certificates: when
\* it is posted the plan has these again, whatever was saved since, and the rest
\* of the environment is kept.
SavedAsShownKeepsThePlan ==
    [][\A t \in Tabs, page \in {"business", "security", "discovery"} :
        Resaved(t, page) =>
            LET draft == Loaded(t)
                before == DocumentOf(draft)
                after == DocumentOf(session'[tabs[t].id]) IN
            /\ KeepsBusiness(before, after)
            /\ IF page = "security" /\ Imported(draft)
               THEN /\ Keeps(NotImported(draft, before.environment), after.environment)
                    /\ KeepsSecurity(ShownAsImported(draft), after)
               ELSE KeepsSecurity(before, after)]_vars

\* The endpoints of a parsed group, with the capabilities chosen for each.
EndpointsOf(b, d) ==
    UNION {{<<ApiOfGroup(g.id), ref,
              UNION {Range(e.capabilities) : e \in {x \in Range(g.endpoints) : x.ref = ref}}>> : ref \in RefsOf(b, g)} :
             g \in Range(d.groups)}

SaysTheSame(b, built, d) ==
    /\ EndpointsOf(b, built) = EndpointsOf(b, d)
    /\ Range(built.endpoints) = Range(d.endpoints)
    /\ built.environment = d.environment
    /\ Restriction(built.mtls, MtlsPaths) = Restriction(d.mtls, MtlsPaths)
    /\ \A part \in {"oauth", "fapiSigning", "tls", "resourceServer", "scalars", "runtimeInputs", "inputs"} :
           built.config[part] = d.config[part]
    /\ built.config.accountIds = (IF "ais" \in SelectedApis(d) THEN d.config.accountIds ELSE <<>>)
    /\ built.config.sections =
           Restriction(d.config.sections, {k \in DOMAIN ApiOfField : ApiOfField[k] \in SelectedApis(d)})
    /\ <<built.family, built.version, built.mode, built.registration, built.metadata>> =
           <<d.family, d.version, d.mode, d.registration, d.metadata>>

\* The document built from a draft that was just imported says what the
\* imported document said: the same endpoints (a whole group names each of its
\* endpoints), the same environment and runner's config, and the business data
\* of the selected APIs.  The mtls flag alone may change.
ImportKeepsThePlan ==
    [][\A t \in Tabs :
        (tabs[t].at = "posted" /\ tabs[t].page = "new" /\ tabs[t].input # Nothing /\ tabs[t].id \in DOMAIN session' \ DOMAIN session)
        => LET draft == session'[tabs[t].id] IN
           ~Unbuildable(draft) /\ SaysTheSame(draft.boundary, DocumentOf(draft), ParsedCanonical(tabs[t].input))]_vars

\* A registration plan the security page accepted can be launched as soon as it
\* has a discovery URL and its files exist: the page asks for everything
\* parse_dcr_plan_configuration asks for.
AcceptedRegistrationsRun ==
    [][\A t \in Tabs :
        (tabs[t] # tabs'[t] /\ Posted(t, "security") /\ Accepted(t) /\ IsDcrDraft(Loaded(t)))
        => LET draft == session'[tabs[t].id] IN
           Filled(draft.config.scalars, "discoveryUrl") => LaunchSupported(draft, AnyFile)]_vars

\* The plan that is run has the inputs of the plan that was reviewed: "Launch
\* still uses Read/Write runtime values retained in the same browser session".
LaunchUsesTheReviewedInputs ==
    launched # Nothing => ~launched.refused /\ launched.run.runtime_inputs = launched.reviewed.runtime_inputs

=============================================================================
