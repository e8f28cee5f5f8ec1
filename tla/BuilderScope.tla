---------------------------- MODULE BuilderScope ----------------------------
(***************************************************************************)
(* The scope step of the plan builder (conformance/api/builder_wizard.py): *)
(* what a specification offers, what the scope form accepts, what is left  *)
(* of a selection when the specification changes, and the selection a      *)
(* document is built from or an imported one is turned into.               *)
(*                                                                         *)
(* A selection is a set of group ids, a set of endpoint ids and a set of   *)
(* capabilities, each below an endpoint id.  An endpoint id is a digest of *)
(* the API and the endpoint; sessions of an older release hold digests of  *)
(* the endpoint alone.  Digests are taken to be injective.                 *)
(***************************************************************************)
EXTENDS CanonicalPlan

\* Boundary |-> what its catalogues offer: a family, a version, and a sequence
\* of areas [api, endpoints].  An endpoint is [ref, required, optional, kind,
\* inputs, filters, signed]: its features, the kind of payment its path names,
\* the plan inputs its test cases require or may use, and whether their responses
\* are signed.  A version without an executable catalogue has backed = FALSE.
CONSTANT Offer

Boundaries == DOMAIN Offer

\* catalogue_boundary_continue_blocker
Blocked(b) == ~Offer[b].backed

IsDirect(b) == ~UsesGroups(Offer[b].family)

GroupId(api) == <<"builder", api>>

EndpointId(api, ref) == <<api, ref>>

LegacyEndpointId(ref) == <<"", ref>>

Selection == [groups |-> {}, endpoints |-> {}, capabilities |-> {}]

-----------------------------------------------------------------------------
(* What is offered.  The endpoints of a group are shown when the group is  *)
(* selected, the features of an endpoint when the endpoint is.             *)

AreasOf(b) == IF IsDirect(b) THEN {} ELSE Range(Offer[b].areas)

\* _normalized_resource_group_ids
Normalised(b, groups) ==
    LET available == {a.api : a \in AreasOf(b)} IN
    {IF ApiOfGroup(g) \in available THEN GroupId(ApiOfGroup(g)) ELSE g : g \in groups}

\* _DCR_ENDPOINTS: the registration is selected always.
DirectRefs == {Registration} \union Managements

ShownAreas(b, s) == {a \in AreasOf(b) : GroupId(a.api) \in Normalised(b, s.groups)}

ShownEndpoints(b, s) ==
    IF IsDirect(b) THEN {EndpointId("dcr", ref) : ref \in DirectRefs}
    ELSE UNION {{EndpointId(a.api, e.ref) : e \in Range(a.endpoints)} : a \in ShownAreas(b, s)}

IsSelected(s, api, ref) == {EndpointId(api, ref), LegacyEndpointId(ref)} \intersect s.endpoints # {}

FeaturesBelow(a, s, kinds) ==
    UNION {{<<EndpointId(a.api, e.ref), c>> : c \in UNION {e[k] : k \in kinds}} :
             e \in {x \in Range(a.endpoints) : IsSelected(s, a.api, x.ref)}}

\* _feature_options: the values of the shown features
ShownFeatures(b, s) == UNION {FeaturesBelow(a, s, {"required", "optional"}) : a \in ShownAreas(b, s)}

-----------------------------------------------------------------------------
(* ScopeSelectionForm.                                                     *)

\* _pruned_scope_form_data
Pruned(b, s) ==
    [groups |-> {GroupId(a.api) : a \in ShownAreas(b, s)},
     endpoints |-> s.endpoints \intersect ShownEndpoints(b, s),
     capabilities |-> s.capabilities \intersect ShownFeatures(b, s)]

\* A choice that is not offered, an endpoint outside of the selected groups,
\* or a feature of an endpoint that is not selected.
BadScope(b, s) ==
    \/ ~(s.groups \subseteq {GroupId(a.api) : a \in AreasOf(b)})
    \/ ~(s.endpoints \subseteq ShownEndpoints(b, s))
    \/ ~(s.capabilities \subseteq ShownFeatures(b, s))
    \/ /\ ~IsDirect(b)
       /\ \/ \E e \in s.endpoints : GroupId(e[1]) \notin s.groups
          \/ \E c \in s.capabilities : c[1] \notin s.endpoints

\* Required features are covered always and are not kept as a choice.
AcceptedScope(b, s) ==
    [groups |-> s.groups,
     endpoints |-> IF IsDirect(b) THEN s.endpoints \union {EndpointId("dcr", Registration)} ELSE s.endpoints,
     capabilities |-> s.capabilities \intersect UNION {FeaturesBelow(a, s, {"optional"}) : a \in ShownAreas(b, s)}]

\* Mutant of ScopeAfterBoundary: the selection is kept.
ScopeAfterBoundaryKept(b, s) == s

\* What builder_catalogue_boundary keeps of a selection.
ScopeAfterBoundary(b, s) == AcceptedScope(b, Pruned(b, s))

-----------------------------------------------------------------------------
(* From a selection to a document and back.                                *)

StaleGroups(b, s) == Normalised(b, s.groups) \ {GroupId(a.api) : a \in AreasOf(b)}

IncludedEndpoints(b, s) ==
    UNION {UNION {{EndpointId(a.api, e.ref), LegacyEndpointId(e.ref)} :
                    e \in {x \in Range(a.endpoints) : IsSelected(s, a.api, x.ref)}} : a \in ShownAreas(b, s)}

\* The ids plan_document_from_draft refuses.
StaleScope(b, s) ==
    IF IsDirect(b) THEN ~(s.endpoints \subseteq ShownEndpoints(b, s))
    ELSE StaleGroups(b, s) # {} \/ ~(s.endpoints \subseteq IncludedEndpoints(b, s))

\* The capabilities of an endpoint; those below its legacy id are looked at
\* when there are none below its own.
CapabilitiesOf(s, api, ref) ==
    LET below(id) == {c[2] : c \in {x \in s.capabilities : x[1] = id}} IN
    IF below(EndpointId(api, ref)) # {} THEN below(EndpointId(api, ref)) ELSE below(LegacyEndpointId(ref))

RawEndpoints(a, s) ==
    LET chosen == SelectSeq(a.endpoints, LAMBDA e : IsSelected(s, a.api, e.ref)) IN
    [i \in DOMAIN chosen |->
        [spelling |-> chosen[i].ref, capabilities |-> SetToSeq(CapabilitiesOf(s, a.api, chosen[i].ref))]]

\* A group without a selected endpoint is left out.
RawGroups(b, s) ==
    SelectSeq([i \in DOMAIN Offer[b].areas |->
                 [id |-> <<"canonical", Offer[b].areas[i].api>>, endpoints |-> RawEndpoints(Offer[b].areas[i], s)]],
              LAMBDA g : g.endpoints # <<>> /\ ApiOfGroup(g.id) \in {a.api : a \in ShownAreas(b, s)})

RawDirectEndpoints(s) ==
    LET chosen == SetToSeq({ref \in DirectRefs : ref = Registration \/ EndpointId("dcr", ref) \in s.endpoints}) IN
    [i \in DOMAIN chosen |->
        [spelling |-> chosen[i], required |-> chosen[i] = Registration, locked |-> chosen[i] = Registration]]

AreaOf(b, api) == CHOOSE a \in AreasOf(b) : a.api = api

HasArea(b, api) == \E a \in AreasOf(b) : a.api = api

\* The refs of a parsed group; a whole group has all that the area offers.
RefsOf(b, g) ==
    IF g.select_all THEN {e.ref : e \in Range(AreaOf(b, ApiOfGroup(g.id)).endpoints)}
    ELSE {e.ref : e \in Range(g.endpoints)}

\* Mutant of ScopeOfDocument: of a whole group no endpoint is selected.
ScopeOfDocumentListed(b, d) ==
    [groups |-> {GroupId(ApiOfGroup(g.id)) : g \in Range(d.groups)},
     endpoints |-> UNION {{EndpointId(ApiOfGroup(g.id), e.ref) : e \in Range(g.endpoints)} : g \in Range(d.groups)},
     capabilities |-> {}]

\* draft_scope_from_plan_document
ScopeOfDocument(b, d) ==
    IF IsDirect(b)
    THEN [Selection EXCEPT !.endpoints = {EndpointId("dcr", e.ref) : e \in Range(d.endpoints)}]
    ELSE [groups |-> {GroupId(ApiOfGroup(g.id)) : g \in Range(d.groups)},
          endpoints |-> UNION {{EndpointId(ApiOfGroup(g.id), ref) : ref \in RefsOf(b, g)} : g \in Range(d.groups)},
          capabilities |->
            UNION {UNION {{<<EndpointId(ApiOfGroup(g.id), e.ref), c>> : c \in Range(e.capabilities)} :
                            e \in Range(g.endpoints)} : g \in Range(d.groups)}]

\* A document whose endpoints or capabilities the catalogues do not offer is
\* refused by compile_test_plan_document; PlanCompiler models the rest of it.
CompileRefuses(b, d) ==
    \E g \in Range(d.groups) :
        LET api == ApiOfGroup(g.id) IN
        \/ ~HasArea(b, api)
        \/ \E e \in Range(g.endpoints) :
             \A o \in Range(AreaOf(b, api).endpoints) :
                 o.ref # e.ref \/ ~(Range(e.capabilities) \subseteq o.required \union o.optional)
=============================================================================
