--------------------------- MODULE PlanCompilerMC ---------------------------
(***************************************************************************)
(* The checked catalogues and plans of PlanCompiler.                       *)
(***************************************************************************)
EXTENDS PlanCompiler

CONSTANTS consent, balance, product, payment, refund, e1, e2, e3, e4, e5, old1, cap, limit, ais, pis, vrp, amount, secret, agent, ok

OneAlias == [r \in {old1} |-> e1]

Case(p, r, x, d, q) ==
    [NoCase EXCEPT !.profiles = p, !.refs = r, !.capabilities = x, !.dependencies = d, !.requirements = q,
                   !.assertions = {ok}]

Need(i, r, s, from) ==
    [input |-> i, type |-> "string", required |-> r, sensitive |-> s, source |-> from]

\* Two areas that share the endpoint e3.  A consent case is a dependency of
\* the cases behind it, one case needs a capability, one is reported as
\* skipped when its endpoint is absent; the input "amount" is sensitive in the
\* second area only and "secret" is generated there.
TwoAreas ==
    <<[api |-> ais, order |-> <<balance, consent, product>>,
       capabilities |-> <<[id |-> cap, required |-> FALSE, refs |-> {e1}], [id |-> limit, required |-> TRUE, refs |-> {e1, e2}]>>,
       cases |-> [x \in CaseIds |->
           CASE x = balance -> [Case({"all"}, {e1, e2}, {limit}, <<consent>>, <<Need(amount, TRUE, FALSE, "plan")>>) EXCEPT !.mandatory = TRUE]
             [] x = consent -> [Case({"fapi1"}, {e5}, {}, <<>>, <<Need(amount, FALSE, FALSE, "plan"), Need(agent, FALSE, FALSE, "plan")>>) EXCEPT !.skips = TRUE]
             [] x = product -> [Case({"all"}, {e1}, {cap}, <<>>, <<>>) EXCEPT !.versions = {"new"}]
             [] OTHER -> NoCase]],
      [api |-> pis, order |-> <<payment, refund>>,
       capabilities |-> <<>>,
       cases |-> [x \in CaseIds |->
           CASE x = payment -> [Case({"all"}, {e3}, {}, <<>>, <<Need(amount, TRUE, TRUE, "plan")>>) EXCEPT !.mandatory = TRUE]
             [] x = refund -> [Case({"all"}, {e3, e4}, {}, <<payment>>, <<Need(secret, FALSE, TRUE, "generated")>>) EXCEPT !.skips = TRUE]
             [] OTHER -> NoCase]]>>

\* Catalogues that are refused, or refuse some plans: e3 has two owners, a
\* capability lacks endpoints or is not known, a dependency is missing, part
\* of a cycle or barred by the profile, the areas share a case or disagree on
\* an input.
OddAreas ==
    {[TwoAreas EXCEPT ![1].cases[product].refs = {e1, e3}],
     [TwoAreas EXCEPT ![1].capabilities[1].refs = {}],
     [TwoAreas EXCEPT ![1].cases[consent].capabilities = {cap}],
     [TwoAreas EXCEPT ![2].order = <<payment, refund, payment>>],
     [TwoAreas EXCEPT ![2].cases[refund].dependencies = <<consent>>],
     [TwoAreas EXCEPT ![2].cases[payment].dependencies = <<refund>>],
     [TwoAreas EXCEPT ![2].order = <<payment, refund, consent>>, ![2].cases[refund].dependencies = <<consent>>,
                      ![2].cases[consent].profiles = {"fapi2"}],
     [TwoAreas EXCEPT ![2].order = <<payment, refund, consent>>, ![2].cases[consent].profiles = {"all"}],
     [TwoAreas EXCEPT ![2].cases[payment].requirements[1].type = "json"],
     [TwoAreas EXCEPT ![1].cases[consent].requirements[1].source = "generated"],
     [TwoAreas EXCEPT ![2].cases[refund].requirements[1].sensitive = FALSE, ![2].cases[payment].dependencies = <<refund, refund>>,
                      ![2].cases[refund].dependencies = <<>>]}

At(r, g, x) == [ref |-> r, group |-> g, capabilities |-> x]

Group(g, all, list) == [id |-> g, select_all |-> all, endpoints |-> list]

Inputs == [InputIds -> {NoValue, "text"}]

GivenInputs == {i \in Inputs : i[agent] = NoValue \/ i[secret] = NoValue}

V2(groups, inputs, profile, version) ==
    [form |-> "v2", api |-> NoGroup, groups |-> groups, endpoints |-> <<>>, inputs |-> inputs, profile |-> profile,
     version |-> version, deselected |-> <<>>, overrides |-> <<>>]

V1(api, list, inputs, out, over) ==
    [form |-> "v1", api |-> api, groups |-> <<>>, endpoints |-> list, inputs |-> inputs, profile |-> "fapi1",
     version |-> "new", deselected |-> out, overrides |-> over]

EndpointLists(g) ==
    {<<At(x, g, {}), At(y, g, z)>> : x \in {e1, e2, e3, old1}, y \in {e1, e3, e4}, z \in {{}, {cap}}}
        \union {<<At(old1, g, {}), At(e2, g, {}), At(x, g, {})>> : x \in {e1, e3, old1}}
        \union {<<At(e1, g, {cap}), At(e2, g, {}), At(old1, g, {})>>}

Documents ==
    {V2(<<Group(g, all, list)>>, i, p, v) :
        g \in {NoGroup, ais, pis, vrp}, all \in {FALSE}, list \in EndpointLists(NoGroup),
        i \in GivenInputs, p \in {"fapi1", "fapi2"}, v \in {"new", "old"}}
    \union
    {V2(<<Group(g, TRUE, <<>>), Group(h, FALSE, list)>>, i, "fapi1", "new") :
        g \in {NoGroup, ais, pis, vrp}, h \in {ais, pis, NoGroup},
        list \in {<<>>, <<At(e3, NoGroup, {})>>, <<At(e1, NoGroup, {}), At(e2, NoGroup, {})>>}, i \in GivenInputs}
    \union {V2(<<Group(ais, FALSE, <<>>)>>, i, "fapi1", "new") : i \in GivenInputs}

Specifications ==
    {V1(g, list, i, out, over) :
        g \in {ais, pis, vrp}, list \in EndpointLists(NoGroup) \union {<<At(e1, NoGroup, {cap}), At(e2, NoGroup, {})>>, <<At(e3, NoGroup, {}), At(e4, NoGroup, {})>>},
        i \in {j \in GivenInputs : j[agent] = NoValue},
        out \in {<<>>, <<consent>>, <<balance>>, <<product>>, <<payment>>, <<refund>>},
        over \in {<<>>, <<[case |-> consent, assertion |-> ok]>>, <<[case |-> payment, assertion |-> ok]>>}}

On(plans, areas) ==
    {[form |-> p.form, api |-> p.api, groups |-> p.groups, endpoints |-> p.endpoints, inputs |-> p.inputs, profile |-> p.profile,
      version |-> p.version, deselected |-> p.deselected, overrides |-> p.overrides, catalogues |-> k] :
        p \in plans, k \in areas}

AllPlans == On(Documents \union Specifications, {TwoAreas})

WholePlans ==
    {V2(<<Group(g, FALSE, <<At(e1, NoGroup, x), At(e2, NoGroup, {})>>), Group(h, FALSE, <<At(e3, NoGroup, {}), At(e4, NoGroup, {})>>)>>, i, p, "new") :
        g \in {NoGroup, ais}, h \in {NoGroup, pis}, x \in {{}, {cap}},
        i \in [InputIds -> {NoValue, "text", "object"}], p \in {"fapi1", "fapi2"}}

OddPlans == On(WholePlans, OddAreas \union {TwoAreas})

=============================================================================
