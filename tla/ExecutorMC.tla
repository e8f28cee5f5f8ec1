----------------------------- MODULE ExecutorMC -----------------------------
(***************************************************************************)
(* The checked instances of Executor.                                      *)
(***************************************************************************)
EXTENDS Executor

CONSTANTS g1, g2, g3, t1

BodyOf(k) == [kind |-> "body", step |-> k]

\* Plans of three steps, spread over setup and two groups in every way, in
\* which the third step has up to two placeholders, in its URL or in its body,
\* and the second up to one.
\* The first step produces the token.
SchedulePlans ==
    {[selected |-> chosen, setup |-> s, group |-> g,
      refs |-> [k \in Steps |-> CASE k = 2 -> r2 [] k = 3 -> r3[1] [] OTHER -> <<>>],
      later |-> [k \in Steps |-> IF k = 3 THEN r3[2] ELSE <<>>],
      unsupported |-> {},
      produces |-> [k \in Steps |-> IF k = 1 THEN t1 ELSE NoToken],
      psu |-> {}, signs |-> {}, verifies |-> {}] :
        chosen \in {{1, 2, 3}, {2, 3}, {1, 3}},
        s \in SUBSET (1 .. 3),
        g \in {f \in [Steps -> {g1, g2}] : \A k \in {1, 4, 5} : f[k] = g1},
        r2 \in {<<>>, <<[kind |-> "token", token |-> t1]>>},
        r3 \in {<<<<BodyOf(1)>>, <<>>>>,
                <<<<>>, <<[kind |-> "status", step |-> 2]>>>>,
                <<<<[kind |-> "request", step |-> 2], [kind |-> "token", token |-> t1]>>, <<>>>>,
                <<<<BodyOf(2)>>, <<BodyOf(1)>>>>}}

\* Three groups of one step each that all sign and verify.
CachePlans ==
    {[selected |-> {1, 3, 5}, setup |-> {}, group |-> [k \in Steps |-> CASE k = 3 -> g2 [] k = 5 -> g3 [] OTHER -> g1],
      refs |-> [k \in Steps |-> <<>>],
      later |-> [k \in Steps |-> <<>>],
      unsupported |-> {},
      produces |-> [k \in Steps |-> NoToken],
      psu |-> {}, signs |-> Steps, verifies |-> Steps]}

\* Setup with a PSU step, then three groups of which the first has two steps.
\* The last step may have a method that is not supported.
MixedPlans ==
    {[selected |-> Steps \ skip, setup |-> {1}, group |-> [k \in Steps |-> CASE k = 3 -> g2 [] k = 5 -> g3 [] OTHER -> g1],
      refs |-> [k \in Steps |-> IF k = 1 THEN <<>> ELSE <<BodyOf(1)>>],
      later |-> [k \in Steps |-> <<>>],
      unsupported |-> odd,
      produces |-> [k \in Steps |-> NoToken],
      psu |-> {1}, signs |-> {2, 3}, verifies |-> {}] : skip \in {{}, {2}}, odd \in {{}, {5}}}

MCPlans == SchedulePlans \union CachePlans \union MixedPlans

=============================================================================
