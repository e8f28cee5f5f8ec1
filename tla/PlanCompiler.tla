---------------------------- MODULE PlanCompiler ----------------------------
(***************************************************************************)
(* conformance/catalogue.py, compile_test_plan_document: how a test plan   *)
(* becomes the ordered list of test cases a run executes.                  *)
(*                                                                         *)
(* A "v2" document selects endpoints of several catalogue areas (AIS, PIS, *)
(* ...): its endpoints are listed, partitioned over the areas, every area  *)
(* that got some is compiled and the compiled areas are merged.  A "v1"    *)
(* specification names one catalogue and may deselect cases and override   *)
(* assertions.  Each phase that can raise CatalogueError is an action; the *)
(* walk over dependencies is CaseOrder.                                    *)
(*                                                                         *)
(* Ids, paths, labels and texts are model values.  An endpoint is its      *)
(* (method, path) reference.  A decision's reason is a short name.         *)
(***************************************************************************)
EXTENDS CaseOrder

CONSTANTS
    Refs,         \* endpoint references
    AliasOf,      \* references that are another spelling of a reference
    ApiNames,         \* catalogue areas
    NoGroup,      \* a resource group id that names no area
    CapabilityIds, AssertionIds,
    InputIds, NoValue,
    HeaderInputs, \* _REQUEST_HEADER_RUNTIME_INPUT_IDS
    CheckedPlans  \* the plans a run starts from

\* The cases of a catalogue, and the cases they depend on, are listed by their
\* ids; CaseIds has the ones that no catalogue defines too.
ASSUME CatalogueAssumption ==
    \A p \in CheckedPlans : \A k \in DOMAIN p.catalogues :
        /\ p.catalogues[k].order \in Seq(CaseIds)
        /\ \A c \in CaseIds :
              /\ p.catalogues[k].cases[c].dependencies \in Seq(CaseIds)
              /\ \A q \in Elements(p.catalogues[k].cases[c].requirements) : q.input \in InputIds

VARIABLES
    plan,       \* the document, and the candidate catalogues of its boundary
    pc,
    endpoints,  \* the implemented endpoints of the document
    placed,     \* how many of them are partitioned
    parts,      \* endpoints_by_catalogue_index
    aliased,    \* alias_refs_by_catalogue_index
    area,       \* the catalogue being compiled
    base,       \* base_decisions of that catalogue
    compiled,   \* compiled_plans
    snapshot,   \* the values in the runtime input snapshot of the result
    error

compilerVars == <<plan, pc, endpoints, placed, parts, aliased, area, base, compiled, snapshot, error>>

vars == <<compilerVars, orderVars>>

Catalogues == plan.catalogues

Areas == DOMAIN Catalogues

Catalogue == Catalogues[area]

Versions == {"old", "new"}

Values == {NoValue, "text", "object"}

NoCase ==
    [profiles |-> {}, refs |-> {}, capabilities |-> {}, versions |-> {}, mandatory |-> FALSE,
     dependencies |-> <<>>, requirements |-> <<>>, assertions |-> {}, skips |-> FALSE]

CasesOf(k) == Elements(Catalogues[k].order)

Fail(e) ==
    /\ error' = e
    /\ pc' = "error"

-----------------------------------------------------------------------------
(* The endpoints a document selects.                                       *)

\* _canonical_implemented_endpoint: an alias loses its capabilities.
CanonicalEndpoint(e) ==
    IF e.ref \in DOMAIN AliasOf
    THEN [e EXCEPT !.ref = AliasOf[e.ref], !.capabilities = {}]
    ELSE e

CatalogueRefs(k) ==
    UNION {Catalogues[k].cases[c].refs : c \in CasesOf(k)}
        \union UNION {x.refs : x \in Elements(Catalogues[k].capabilities)}

AreasOfApi(api) == {k \in Areas : Catalogues[k].api = api}

\* Some order of the references; _ordered_catalogue_endpoint_refs fixes one,
\* which nothing below depends on.
ListOf(S) == CHOOSE s \in [1 .. Cardinality(S) -> S] : Elements(s) = S

\* _all_endpoints_for_resource_group
AllEndpoints(group) ==
    LET k == CHOOSE x \in AreasOfApi(group) : TRUE
        refs == ListOf(CatalogueRefs(k)) IN
    [i \in DOMAIN refs |-> [ref |-> refs[i], group |-> group, capabilities |-> {}]]

GroupEndpoints(g) ==
    IF g.select_all THEN AllEndpoints(g.id)
    ELSE [i \in DOMAIN g.endpoints |->
             [ref |-> g.endpoints[i].ref, group |-> g.id, capabilities |-> g.endpoints[i].capabilities]]

Flatten(groups) ==
    LET from[i \in 0 .. Len(groups)] == IF i = 0 THEN <<>> ELSE from[i - 1] \o GroupEndpoints(groups[i])
    IN  from[Len(groups)]

\* _implemented_endpoints_from_plan_document_v2
ListEndpoints ==
    /\ pc = "scope"
    /\ plan.form = "v2"
    /\ \/ /\ \E g \in Elements(plan.groups) : g.select_all /\ AreasOfApi(g.id) = {}
          /\ Fail("no area owns the group")
          /\ UNCHANGED endpoints
       \/ /\ \A g \in Elements(plan.groups) : ~(g.select_all /\ AreasOfApi(g.id) = {})
          /\ endpoints' = Flatten(plan.groups)
          /\ IF endpoints' = <<>> THEN Fail("nothing selected")
             ELSE pc' = "place" /\ UNCHANGED error
    /\ UNCHANGED <<plan, placed, parts, aliased, area, base, compiled, snapshot, orderVars>>

\* compile_test_plan_document for a TestPlanSpec: one catalogue, no partition.
ResolveCatalogue ==
    /\ pc = "scope"
    /\ plan.form = "v1"
    /\ endpoints' = [i \in DOMAIN plan.endpoints |-> CanonicalEndpoint(plan.endpoints[i])]
    /\ \/ /\ AreasOfApi(plan.api) = {}
          /\ Fail("unsupported catalogue")
          /\ UNCHANGED <<area, parts>>
       \/ \E k \in AreasOfApi(plan.api) :
             /\ area' = k
             /\ parts' = [parts EXCEPT ![k] = endpoints']
             /\ pc' = "select"
             /\ UNCHANGED error
    /\ UNCHANGED <<plan, placed, aliased, base, compiled, snapshot, orderVars>>

SeenIn(k) == {e.ref : e \in Elements(parts[k])}

\* _append_partitioned_endpoint with the tests before it: a repeated reference
\* is dropped when one of the two came from an alias, and refused otherwise.
Placement(k, raw) ==
    LET e == CanonicalEndpoint(raw)
        alias == raw.ref # e.ref IN
    \/ /\ e.ref \in SeenIn(k)
       /\ alias \/ e.ref \in aliased[k]
       /\ UNCHANGED <<parts, aliased, pc, error>>
    \/ /\ e.ref \in SeenIn(k)
       /\ ~alias /\ e.ref \notin aliased[k]
       /\ Fail("duplicate endpoint")
       /\ UNCHANGED <<parts, aliased>>
    \/ /\ e.ref \notin SeenIn(k)
       /\ parts' = [parts EXCEPT ![k] = Append(@, e)]
       /\ aliased' = IF alias THEN [aliased EXCEPT ![k] = @ \union {e.ref}] ELSE aliased
       /\ UNCHANGED <<pc, error>>

\* One turn of the loop of _partition_implemented_endpoints_by_catalogue.
PlaceEndpoint ==
    /\ pc = "place"
    /\ placed < Len(endpoints)
    /\ placed' = placed + 1
    /\ LET raw == endpoints[placed + 1]
           ref == CanonicalEndpoint(raw).ref
           owners == {k \in Areas : ref \in CatalogueRefs(k)} IN
       \/ /\ raw.group \in ApiNames /\ AreasOfApi(raw.group) = {}
          /\ Fail("group not available") /\ UNCHANGED <<parts, aliased>>
       \/ \E k \in AreasOfApi(raw.group) :
             \/ ref \notin CatalogueRefs(k) /\ Fail("not in the group") /\ UNCHANGED <<parts, aliased>>
             \/ ref \in CatalogueRefs(k) /\ Placement(k, raw)
       \/ /\ raw.group \notin ApiNames /\ Cardinality(owners) # 1
          /\ Fail("no owner or several") /\ UNCHANGED <<parts, aliased>>
       \/ raw.group \notin ApiNames /\ \E k \in owners : owners = {k} /\ Placement(k, raw)
    /\ UNCHANGED <<plan, endpoints, area, base, compiled, snapshot, orderVars>>

\* The areas that got endpoints are compiled in catalogue order.
NextArea(after) ==
    LET rest == {k \in Areas : k > after /\ parts[k] # <<>>} IN
    \/ rest = {} /\ pc' = "merge" /\ UNCHANGED area
    \/ pc' = "select" /\ \E k \in rest : area' = k /\ \A j \in rest : k <= j

PartitionDone ==
    /\ pc = "place"
    /\ placed = Len(endpoints)
    /\ NextArea(0)
    /\ UNCHANGED <<plan, endpoints, placed, parts, aliased, base, compiled, snapshot, error, orderVars>>

-----------------------------------------------------------------------------
(* compile_test_plan for one area.                                         *)

ImplementedRefs == SeenIn(area)

CapabilitiesOf(ref) == {x \in Elements(Catalogue.capabilities) : ref \in x.refs}

\* _selected_capabilities_by_endpoint: what an endpoint names explicitly and
\* what is required there.  A later listing of the same reference wins.
SelectedAt(ref) ==
    {x.id : x \in {y \in CapabilitiesOf(ref) :
        /\ ref \in ImplementedRefs
        /\ y.required \/ \E i \in DOMAIN parts[area] :
                             /\ parts[area][i].ref = ref /\ y.id \in parts[area][i].capabilities
                             /\ \A j \in DOMAIN parts[area] : j > i => parts[area][j].ref # ref}}

UnusableCapability ==
    \E e \in Elements(parts[area]) : \E x \in e.capabilities : x \notin {y.id : y \in CapabilitiesOf(e.ref)}

\* _catalogue_cases_by_id, _catalogue_capability_indexes and
\* _validate_test_case_capability_references: a catalogue that is not fit to
\* be compiled.
BadCatalogue ==
    \/ Cardinality(CasesOf(area)) # Len(Catalogue.order)
    \/ Cardinality({x.id : x \in Elements(Catalogue.capabilities)}) # Len(Catalogue.capabilities)
    \/ \E x \in Elements(Catalogue.capabilities) : x.refs = {}
    \/ \E c \in CasesOf(area) : \E id \in Catalogue.cases[c].capabilities :
           ~\E x \in Elements(Catalogue.capabilities) :
               x.id = id /\ x.refs \intersect Catalogue.cases[c].refs # {}

AppliesToProfile(t) == plan.profile \in t.profiles \/ "all" \in t.profiles

\* _test_case_applies_to_specification_version
AppliesToVersion(t) == plan.form = "v1" \/ t.versions = {} \/ plan.version \in t.versions

\* Mutant of Decision: any shared endpoint is enough.
DecisionAnyEndpoint(c) ==
    LET t == Catalogue.cases[c] IN
    CASE ~AppliesToProfile(t) -> "profile"
      [] AppliesToProfile(t) /\ ~AppliesToVersion(t) -> "version"
      [] OTHER -> IF t.refs = {} \/ t.refs \intersect ImplementedRefs # {} THEN "applicable" ELSE "endpoint"

\* The reason _directly_applicable_case_ids records for a case; the case is
\* selected when it is "applicable".
Decision(c) ==
    LET t == Catalogue.cases[c] IN
    CASE ~AppliesToProfile(t) -> "profile"
      [] AppliesToProfile(t) /\ ~AppliesToVersion(t) -> "version"
      [] OTHER ->
           IF ~(t.refs \subseteq ImplementedRefs) THEN "endpoint"
           ELSE IF ~(t.capabilities \subseteq UNION {SelectedAt(r) : r \in t.refs}) THEN "capability"
           ELSE "applicable"

Deselected == Elements(plan.deselected)

\* _reject_invalid_deselection
BadDeselection(decisions) ==
    ~\A c \in Deselected :
        c \in CasesOf(area) /\ decisions[c] = "applicable" /\ ~Catalogue.cases[c].mandatory

\* The part of compile_test_plan before the walk, which it starts.
SelectCases ==
    /\ pc = "select"
    /\ base' = [c \in CasesOf(area) |-> Decision(c)]
    /\ \/ /\ BadCatalogue
          /\ Fail("catalogue") /\ UNCHANGED orderVars
       \/ /\ ~BadCatalogue /\ UnusableCapability
          /\ Fail("capability") /\ UNCHANGED orderVars
       \/ /\ ~BadCatalogue /\ ~UnusableCapability /\ BadDeselection(base')
          /\ Fail("deselection") /\ UNCHANGED orderVars
       \/ /\ ~BadCatalogue /\ ~UnusableCapability /\ ~BadDeselection(base')
          /\ StartWalk([order |-> Catalogue.order,
                        dependencies |-> [c \in CaseIds |-> Catalogue.cases[c].dependencies],
                        direct |-> {c \in CasesOf(area) : base'[c] = "applicable"} \ Deselected,
                        admitted |-> {c \in CasesOf(area) : AppliesToProfile(Catalogue.cases[c])}])
          /\ pc' = "walk" /\ UNCHANGED error
    /\ UNCHANGED <<plan, endpoints, placed, parts, aliased, area, compiled, snapshot>>

OrderCases ==
    /\ pc = "walk"
    /\ WalkStep
    /\ UNCHANGED compilerVars

\* A raised error of the walk, or a compiled case that was deselected.
OrderRefused ==
    /\ pc = "walk"
    /\ outcome \in Errors \/ (outcome = "ordered" /\ visited \intersect Deselected # {})
    /\ Fail("order")
    /\ UNCHANGED <<plan, endpoints, placed, parts, aliased, area, base, compiled, snapshot, orderVars>>

RequirementsOf(id) ==
    {q \in UNION {Elements(Catalogue.cases[c].requirements) : c \in visited} : q.input = id}

Required(id) == \E q \in RequirementsOf(id) : q.required

Sensitive(id) == \E q \in RequirementsOf(id) : q.sensitive

Needs == {id \in InputIds : RequirementsOf(id) # {}}

\* The conflicts _combined_runtime_requirements refuses.
Conflicting(id) == Cardinality({<<q.type, q.source>> : q \in RequirementsOf(id)}) > 1

FromPlan(id) == \A q \in RequirementsOf(id) : q.source = "plan"

\* _combined_runtime_requirements and _runtime_input_snapshot: what refuses
\* the plan's runtime inputs.
BadInputs ==
    \/ \E id \in Needs : Conflicting(id)
    \/ \E id \in HeaderInputs \ Needs : plan.inputs[id] # NoValue
    \/ \E id \in Needs : ~FromPlan(id) /\ plan.inputs[id] # NoValue
    \/ \E id \in Needs : FromPlan(id) /\ Required(id) /\ plan.inputs[id] = NoValue
    \/ \E id \in Needs : \E q \in RequirementsOf(id) :
           q.type = "string" /\ plan.inputs[id] \notin {NoValue, "text"}

\* The RuntimeInputTrace of an input.
Trace(id) ==
    [type |-> (CHOOSE q \in RequirementsOf(id) : TRUE).type,
     required |-> FromPlan(id) /\ Required(id),
     sensitive |-> Sensitive(id),
     provided |-> plan.inputs[id] # NoValue,
     value |-> IF Sensitive(id) THEN NoValue ELSE plan.inputs[id]]

\* _validate_assertion_overrides
BadOverrides ==
    \E o \in Elements(plan.overrides) :
        o.case \notin visited \/ o.assertion \notin Catalogue.cases[o.case].assertions

\* Mutant of FinalDecision: dependencies keep their first decision.
FinalDecisionBase(c) ==
    [selected |-> base[c] = "applicable" /\ c \notin Deselected,
     reason |-> IF c \in Deselected THEN "deselected" ELSE base[c],
     dependency_of |-> edges[c]]

\* _traceability_decisions
FinalDecision(c) ==
    [selected |-> c \in visited,
     reason |-> IF c \in Deselected THEN "deselected"
                ELSE IF c \in visited /\ edges[c] # {} /\ base[c] # "applicable" THEN "dependency"
                ELSE base[c],
     dependency_of |-> IF c \in visited \union Deselected THEN edges[c] ELSE {}]

\* The cases reported as skipped because their endpoint is not implemented.
Skipped == {c \in CasesOf(area) : c \notin visited /\ base[c] = "endpoint" /\ Catalogue.cases[c].skips}

\* The rest of compile_test_plan.
CompileArea ==
    /\ pc = "walk" /\ outcome = "ordered"
    /\ visited \intersect Deselected = {}
    /\ ~BadInputs /\ ~BadOverrides
    /\ compiled' = Append(compiled,
           [area |-> area, cases |-> ordered, skipped |-> Skipped,
            decisions |-> [c \in CasesOf(area) |-> FinalDecision(c)],
            inputs |-> [id \in Needs |-> Trace(id)],
            certifying |-> plan.overrides = <<>>])
    /\ NextArea(IF plan.form = "v1" THEN Len(Catalogues) ELSE area)
    /\ UNCHANGED <<plan, endpoints, placed, parts, aliased, base, snapshot, error, orderVars>>

CompileAreaRefused ==
    /\ pc = "walk" /\ outcome = "ordered"
    /\ visited \intersect Deselected = {}
    /\ BadInputs \/ BadOverrides
    /\ Fail("inputs")
    /\ UNCHANGED <<plan, endpoints, placed, parts, aliased, area, base, compiled, snapshot, orderVars>>

-----------------------------------------------------------------------------
(* The aggregate plan.                                                     *)

MergedInputs == UNION {DOMAIN p.inputs : p \in Elements(compiled)}

TracesOf(id) == {p.inputs[id] : p \in {q \in Elements(compiled) : id \in DOMAIN q.inputs}}

\* Mutant of MergedValue: the value of any area that shows one.
MergedValueAny(id) ==
    LET shown == {t.value : t \in TracesOf(id)} \ {NoValue} IN
    IF shown = {} THEN NoValue ELSE CHOOSE v \in shown : TRUE

\* _merge_runtime_input_trace folded over the areas that need the input.
MergedValue(id) ==
    LET shown == {t.value : t \in TracesOf(id)} \ {NoValue} IN
    IF shown = {} \/ \E t \in TracesOf(id) : t.sensitive THEN NoValue
    ELSE CHOOSE v \in shown : TRUE

\* _merge_compiled_test_cases and _merge_runtime_input_trace refuse a case id
\* of two areas and an input with two types.
Unmergeable ==
    \/ \E p, q \in Elements(compiled) :
           p.area # q.area /\ Elements(p.cases) \intersect Elements(q.cases) # {}
    \/ \E id \in MergedInputs : Cardinality({t.type : t \in TracesOf(id)}) > 1

\* _merge_compiled_plan_documents_v2
Merge ==
    /\ pc = "merge"
    /\ IF plan.form = "v2" /\ Unmergeable
       THEN Fail("merge") /\ UNCHANGED snapshot
       ELSE /\ pc' = "done"
            /\ snapshot' = [id \in MergedInputs |-> MergedValue(id)]
            /\ UNCHANGED error
    /\ UNCHANGED <<plan, endpoints, placed, parts, aliased, area, base, compiled, orderVars>>

Init ==
    /\ plan \in CheckedPlans
    /\ pc = "scope"
    /\ endpoints = <<>>
    /\ placed = 0
    /\ parts = [k \in Areas |-> <<>>]
    /\ aliased = [k \in Areas |-> {}]
    /\ area = 0
    /\ base = <<>>
    /\ compiled = <<>>
    /\ snapshot = <<>>
    /\ error = "none"
    /\ call = [order |-> <<>>, dependencies |-> [c \in CaseIds |-> <<>>], direct |-> {}, admitted |-> {}]
    /\ root = 0 /\ stack = <<>> /\ ordered = <<>> /\ edges = [d \in CaseIds |-> {}]
    /\ visiting = {} /\ visited = {} /\ outcome = "ordered"

Compile ==
    \/ ListEndpoints \/ ResolveCatalogue \/ PlaceEndpoint \/ PartitionDone
    \/ SelectCases \/ OrderCases \/ OrderRefused \/ CompileArea \/ CompileAreaRefused \/ Merge

Returned == pc \in {"done", "error"} /\ UNCHANGED vars

Next == Compile \/ Returned

Spec == Init /\ [][Next]_vars

-----------------------------------------------------------------------------
(* What a compiled plan promises.                                          *)

\* The cases of area k that the plan's own endpoints call for, declaratively.
\* An endpoint listed twice (under its alias, in a v1 specification) has the
\* capabilities of its last listing.
Wanted(k) ==
    {c \in CasesOf(k) :
        LET t == Catalogues[k].cases[c] IN
        /\ AppliesToProfile(t) /\ AppliesToVersion(t)
        /\ t.refs \subseteq SeenIn(k)
        /\ \A x \in t.capabilities : \E y \in Elements(Catalogues[k].capabilities) :
               /\ y.id = x
               /\ \E r \in t.refs \intersect y.refs :
                      y.required \/ \E i \in DOMAIN parts[k] :
                                        /\ parts[k][i].ref = r /\ x \in parts[k][i].capabilities
                                        /\ \A j \in DOMAIN parts[k] : j > i => parts[k][j].ref # r}

\* The cases the code lists for a scope: those it calls for, and what they
\* depend on.
WithDependencies(k, from) ==
    LeastClosed(from, [c \in CaseIds |-> Catalogues[k].cases[c].dependencies])

\* A compiled area holds what the scope calls for and what that depends on,
\* and nothing else: no applicable case is lost on the way through endpoint
\* aliases, capabilities, deselection and ordering.
CompiledIsExact ==
    pc = "done" => \A p \in Elements(compiled) :
        Elements(p.cases) = WithDependencies(p.area, Wanted(p.area) \ Deselected)

Explained(p) ==
    /\ \A c \in DOMAIN p.decisions :
          /\ p.decisions[c].selected <=> c \in Elements(p.cases)
          /\ p.decisions[c].dependency_of \subseteq Elements(p.cases)
          /\ p.decisions[c].selected /\ c \notin Wanted(p.area) =>
                 p.decisions[c].reason = "dependency" /\ p.decisions[c].dependency_of # {}
    /\ p.skipped \intersect Elements(p.cases) = {}
    /\ \A c \in p.skipped : ~(Catalogues[p.area].cases[c].refs \subseteq SeenIn(p.area))

\* The traceability report agrees with the plan: a case is reported as selected
\* exactly when it is compiled, a case that is not applicable itself names the
\* compiled cases that need it, and a skipped case is not run.
DecisionsExplainThePlan == \A p \in Elements(compiled) : Explained(p)

\* An input that any compiled case of any area declares sensitive shows no value
\* in the merged snapshot, which is stored and exported with the run.
SensitiveValuesAreNotTraced ==
    pc = "done" => \A p \in Elements(compiled) : \A c \in Elements(p.cases) :
        \A q \in Elements(Catalogues[p.area].cases[c].requirements) :
            q.sensitive => snapshot[q.input] = NoValue

=============================================================================
