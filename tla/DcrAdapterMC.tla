---------------------------- MODULE DcrAdapterMC ----------------------------
(***************************************************************************)
(* The DCR 3.4 contract (standards/ob_dcr/v3_4/parity-contract.json) and   *)
(* instances of DcrAdapter.                                                *)
(***************************************************************************)
EXTENDS DcrAdapter

TC(id, prerequisites, steps) == [id |-> id, methods |-> {}, prerequisites |-> prerequisites, steps |-> steps]

Deletion(id, prerequisites) == [TC(id, prerequisites, <<"delete-client">>) EXCEPT !.methods = {"DELETE"}]

Register(id) ==
    TC(id, {"001-1"}, <<"generate-registration-jose", "post-registration", "assert-status-201", "parse-registration-success">>)

GetToken(id, prerequisite) == TC(id, {prerequisite}, <<"request-client-credentials-token">>)

Refused(id) == TC(id, {"001-1"}, <<"generate-registration-jose", "post-registration", "assert-status-400">>)

GetDeleted(a, b, c, d) ==
    <<Register(a), GetToken(b, a), Deletion(c, {a, b}), TC(d, {c}, <<"get-client", "assert-status-401">>)>>

MCContract == <<
    [id |-> "001", methods |-> {"POST"}, cases |-> <<TC("001-1", {}, <<"validate-registration-endpoint">>)>>],
    [id |-> "002", methods |-> {"POST"},
     cases |-> <<Register("002-1"), GetToken("002-2", "002-1"), Deletion("002-3", {"002-1", "002-2"})>>],
    [id |-> "003", methods |-> {"POST", "GET", "DELETE"}, cases |-> GetDeleted("003-1", "003-2", "003-3", "003-4")],
    [id |-> "004", methods |-> {"POST"},
     cases |-> <<Refused("004-1"), Refused("004-2"), Refused("004-3"), Refused("004-4"), Refused("004-5")>>],
    [id |-> "005", methods |-> {"POST", "GET"},
     cases |-> <<Register("005-1"), GetToken("005-2", "005-1"),
                 TC("005-3", {"005-1", "005-2"}, <<"get-client", "assert-status-200",
                      "validate-registration-response-34", "parse-retrieved-client">>),
                 Deletion("005-4", {"005-2"})>>],
    [id |-> "007", methods |-> {"POST", "GET"},
     cases |-> <<Register("007-1"),
                 TC("007-2", {"007-1"}, <<"set-empty-bearer-token", "get-client", "assert-status-401">>),
                 GetToken("007-3", "007-1"), Deletion("007-4", {"007-3"})>>],
    [id |-> "008", methods |-> {"POST", "PUT"},
     cases |-> <<Register("008-1"), GetToken("008-2", "008-1"),
                 TC("008-3", {"008-1", "008-2"}, <<"generate-registration-jose", "put-client", "assert-status-200">>),
                 Deletion("008-4", {"008-2"})>>],
    [id |-> "009", methods |-> {"POST", "PUT", "DELETE"},
     cases |-> <<Register("009-1"), GetToken("009-2", "009-1"), Deletion("009-3", {"009-1", "009-2"}),
                 TC("009-4", {"009-3"}, <<"generate-registration-jose", "put-client", "assert-status-401">>)>>],
    [id |-> "010", methods |-> {"POST", "GET", "DELETE"}, cases |-> GetDeleted("010-1", "010-2", "010-3", "010-4")],
    [id |-> "011", methods |-> {"POST"},
     cases |-> <<TC("011-1", {"001-1"}, <<"generate-registration-jose", "post-registration", "assert-status-400",
                                          "validate-registration-error">>)>>]>>

MCSelections == {{"POST"}, {"POST", "GET"}, {"POST", "PUT", "DELETE"}, {"POST", "GET", "PUT", "DELETE"}}

\* Every scenario on its own, after the one all others need.
MCSingles == {{"001", s} : s \in {"002", "003", "004", "005", "007", "008", "009", "011"}}

\* A scenario after one that may leave state or a client behind.
MCPairs == {{"001", "002", "007"}, {"001", "003", "008"}, {"001", "005", "009"}, {"001", "010", "011"}}

MCWindows == MCSingles \union MCPairs

MCConfigurations == {[method |-> m, algorithm |-> None] : m \in {"tls_client_auth", "client_secret_basic"}}
    \union {[method |-> "private_key_jwt", algorithm |-> a] : a \in {"PS256", "HS256"}}

MCDocument == [status |-> 200, endpoints |-> TRUE, methods |-> {"client_secret_basic", "private_key_jwt"},
               algorithms |-> {"PS256"}, jwks |-> TRUE]

MCDiscoveries == {MCDocument, [MCDocument EXCEPT !.status = 503], [MCDocument EXCEPT !.jwks = FALSE]}
=============================================================================
