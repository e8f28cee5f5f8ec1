CONSTANTS
    consent = consent
    balance = balance
    product = product
    payment = payment
    refund = refund
    e1 = e1
    e2 = e2
    e3 = e3
    e4 = e4
    e5 = e5
    old1 = old1
    cap = cap
    limit = limit
    ais = ais
    pis = pis
    vrp = vrp
    amount = amount
    secret = secret
    agent = agent
    ok = ok
    CaseIds = {consent, balance, product, payment, refund}
    Refs = {e1, e2, e3, e4, e5}
    AliasOf <- OneAlias
    ApiNames = {ais, pis, vrp}
    NoGroup = NoGroup
    CapabilityIds = {cap, limit}
    AssertionIds = {ok}
    InputIds = {amount, secret, agent}
    NoValue = NoValue
    HeaderInputs = {agent}
    CheckedPlans <- MCPlans
    Spelling <- MCSpelling
    Registration = "register"
    Managements = {"read", "delete"}
    CheckedDocuments <- MCDocuments
    Files = {"x", "y"}
SPECIFICATION MCSpec
INVARIANTS
    CompiledIsExact
    DecisionsExplainThePlan
    DependenciesFirst
    SensitiveValuesAreNotTraced
    LaunchIsAsReviewed
    RegistrationIsRebuilt
    AcceptedPlansRun
    PendingRowsAreTheSteps
