-------------------------- MODULE DcrClientProofs ---------------------------
(***************************************************************************)
(* What the DCR adapter keeps of a client and leaves of it on the server:  *)
(* theorems for every contract that keeps ContractAssumption, every server *)
(* and every number of scenarios, cases and steps.                         *)
(***************************************************************************)
EXTENDS DcrAdapterProofs

-----------------------------------------------------------------------------
(* What the steps do to the scenario's state and to the server.            *)

Now == Case.steps[at.step]

Fields == {"jose", "client", "secret", "token", "url", "response", "deleted"}

\* The step that is tried, field by field.
Answered(status) ==
    /\ Now \notin Requests => state'.response = state.response
    /\ Now \in Requests /\ status = "passed" => state'.response.case = Case.id
    /\ Now = "post-registration" /\ status = "passed" => state'.response.body.client \in {None, Case.id}

Signed(status) ==
    /\ Now # "generate-registration-jose" => state'.jose = state.jose
    /\ Now = "generate-registration-jose" /\ status = "passed" => state'.jose = Case.id

Captured(status) ==
    IF Now = "parse-registration-success" /\ status = "passed"
    THEN /\ state'.client = state.response.body.client /\ state'.url = state'.client
         /\ state'.client # None
    ELSE state'.client = state.client /\ state'.url = state.url

Issued(status) ==
    /\ Now \notin {"request-client-credentials-token", "set-empty-bearer-token"} => state'.token = state.token
    /\ Now = "set-empty-bearer-token" => state'.token = Empty
    /\ Now = "request-client-credentials-token" =>
           state'.token = state.token \/ (state'.token = state.client /\ state.client # None)
    /\ Now = "request-client-credentials-token" /\ status = "passed" =>
           state'.token = state.client /\ state.client # None

Known ==
    /\ \A id \in live' : id \in live \/ (id = Case.id /\ Now = "post-registration")
    /\ state'.deleted => state.deleted \/ (state.url # None /\ Now = "delete-client" /\ state.url \notin live')
    /\ unconfirmed' = unconfirmed

Sent ==
    \/ last' = last
    \/ /\ Now = "post-registration"
       /\ last'.method = "POST" /\ last'.case = Case.id /\ last'.jose = state.jose
    \/ /\ Now \in DOMAIN MethodOf /\ CanManage
       /\ last'.method = MethodOf[Now] /\ last'.scenario = Scenario.id /\ last'.case = Case.id
       /\ last'.client = state.url /\ last'.token = state.token
       /\ Now = "put-client" => last'.jose = state.jose

Tried(status) ==
    /\ pc = "step" /\ Advance(status)
    /\ DOMAIN state' = Fields
    /\ Answered(status) /\ Signed(status) /\ Captured(status) /\ Issued(status) /\ Known /\ Sent

\* A step that only reads.
LEMMA TriedReading ==
    ASSUME DOMAIN state = Fields, pc = "step", NEW status \in {"passed", "failed"}, Finish(status, state),
           UNCHANGED server,
           \/ status = "failed" /\ Now # "set-empty-bearer-token"
           \/ Now \notin Requests \union {"generate-registration-jose", "parse-registration-success",
                                          "set-empty-bearer-token"}
    PROVE  Tried(status)
<1>1. state' = state /\ Advance(status) /\ live' = live /\ unconfirmed' = unconfirmed /\ last' = last
  BY Zenon DEF Finish, server
<1>2. /\ Now # "set-empty-bearer-token"
      /\ status = "passed" => Now \notin Requests \union {"generate-registration-jose", "parse-registration-success"}
  BY Zenon
<1>3. Answered(status) /\ Signed(status) /\ Captured(status)
  BY <1>1, <1>2, Zenon DEF Answered, Signed, Captured, Requests
<1>4. Issued(status)
  BY <1>1, <1>2, Zenon DEF Issued, Requests
<1>5. Known /\ Sent
  BY <1>1, Zenon DEF Known, Sent
<1> QED
  BY <1>1, <1>3, <1>4, <1>5, Zenon DEF Tried

LEMMA TriedDiscovery ==
    ASSUME DOMAIN state = Fields, ValidateDiscovery
    PROVE  \E status \in {"passed", "failed"} : Tried(status)
<1>1. PICK status \in {"passed", "failed"} : Finish(status, state)
  BY Zenon DEF ValidateDiscovery, Verdict
<1>2. pc = "step" /\ UNCHANGED server /\ Now = "validate-registration-endpoint"
  BY Zenon DEF ValidateDiscovery, AtStep, Now
<1> QED
  BY <1>1, <1>2, TriedReading, Zenon DEF Requests

LEMMA TriedChecks ==
    ASSUME DOMAIN state = Fields, AssertStatus \/ ValidateResponse \/ ParseRetrieved \/ ValidateError
    PROVE  \E status \in {"passed", "failed"} : Tried(status)
<1>1. PICK status \in {"passed", "failed"} : Finish(status, state)
  BY Zenon DEF AssertStatus, ValidateResponse, ParseRetrieved, ValidateError, Verdict
<1>2. DOMAIN Expected = {"assert-status-200", "assert-status-201", "assert-status-400", "assert-status-401"}
  BY Zenon DEF Expected
<1>3. pc = "step" /\ UNCHANGED server
      /\ Now \in DOMAIN Expected \union {"validate-registration-response-34", "parse-retrieved-client",
                                         "validate-registration-error"}
  BY Zenon DEF AssertStatus, ValidateResponse, ParseRetrieved, ValidateError, AtStep, Now
<1>4. Now \notin Requests \union {"generate-registration-jose", "parse-registration-success",
                                  "set-empty-bearer-token"}
  BY <1>2, <1>3 DEF Requests
<1> QED
  BY <1>1, <1>3, <1>4, TriedReading, Zenon

LEMMA TriedGenerate ==
    ASSUME DOMAIN state = Fields, GenerateRegistration
    PROVE  \E status \in {"passed", "failed"} : Tried(status)
<1>1. PICK ok \in BOOLEAN : Finish(Verdict(ok), IF ok THEN [state EXCEPT !.jose = Case.id] ELSE state)
  BY Zenon DEF GenerateRegistration, CanSign
<1>2. pc = "step" /\ UNCHANGED server /\ Now = "generate-registration-jose"
  BY Zenon DEF GenerateRegistration, AtStep, Now
<1>3. CASE ~ok
  BY <1>1, <1>2, <1>3, TriedReading, Zenon DEF Verdict
<1>4. CASE ok
  <2>1. state' = [state EXCEPT !.jose = Case.id] /\ Advance("passed")
    BY <1>1, <1>4, Zenon DEF Finish, Verdict
  <2>2. /\ DOMAIN state' = Fields /\ state'.jose = Case.id
        /\ state'.response = state.response /\ state'.client = state.client /\ state'.url = state.url
        /\ state'.token = state.token /\ state'.deleted = state.deleted
    BY <2>1, Zenon DEF Fields
  <2>3. Answered("passed") /\ Signed("passed") /\ Captured("passed")
    BY <1>2, <2>2, Zenon DEF Answered, Signed, Captured, Requests
  <2>4. Issued("passed") /\ Known /\ Sent
    BY <1>2, <2>2, Zenon DEF Issued, Known, Sent, server
  <2>5. Tried("passed")
    BY <1>2, <2>1, <2>2, <2>3, <2>4, ZenonT(60) DEF Tried
  <2> QED
    BY <2>5, Zenon
<1> QED
  BY <1>3, <1>4, Zenon

\* The answers to a request, where they come from and what they are kept in.
LEMMA Answers ==
    ASSUME DOMAIN state = Fields, NEW reply
    PROVE  LET s == [state EXCEPT !.response = Response(reply)] IN
           /\ DOMAIN s = Fields /\ s.response.case = Case.id /\ s.response.body = reply.body
           /\ s.jose = state.jose /\ s.client = state.client /\ s.url = state.url
           /\ s.token = state.token /\ s.deleted = state.deleted
  BY Zenon DEF Fields, Response

LEMMA TriedPost ==
    ASSUME DOMAIN state = Fields, PostRegistration
    PROVE  \E status \in {"passed", "failed"} : Tried(status)
<1>1. pc = "step" /\ unconfirmed' = unconfirmed /\ Now = "post-registration"
  BY Zenon DEF PostRegistration, AtStep, Now
<1>2. CASE state.jose = None
  BY <1>1, <1>2, TriedReading, Zenon DEF PostRegistration, server
<1>3. CASE state.jose # None
  <2>1. PICK reply \in RegistrationReplies :
           /\ Finish(Verdict(~Raises(reply)),
                     IF Raises(reply) THEN state ELSE [state EXCEPT !.response = Response(reply)])
           /\ live' = IF reply.done THEN live \union {NewClient} ELSE live
    BY <1>3, Zenon DEF PostRegistration
  <2>2. last' = Request("POST", None, None, state.jose)
    BY <1>3, Zenon DEF PostRegistration
  <2>3. Sent
    BY <1>1, <2>2, Zenon DEF Sent, Request
  <2>4. \A id \in live' : id \in live \/ (id = Case.id /\ Now = "post-registration")
    BY <1>1, <2>1, Zenon DEF NewClient
  <2>5. CASE Raises(reply)
    <3>1. state' = state /\ Advance("failed")
      BY <2>1, <2>5, Zenon DEF Finish, Verdict
    <3>2. Answered("failed") /\ Signed("failed") /\ Captured("failed") /\ Issued("failed") /\ Known
      BY <1>1, <2>4, <3>1, Zenon DEF Answered, Signed, Captured, Issued, Known, Requests
    <3>3. DOMAIN state' = Fields
      BY <3>1, Zenon
    <3>4. Tried("failed")
      BY <1>1, <2>3, <3>1, <3>2, <3>3, ZenonT(60) DEF Tried
    <3> QED
      BY <3>4, Zenon
  <2>6. CASE ~Raises(reply)
    <3>1. state' = [state EXCEPT !.response = Response(reply)] /\ Advance("passed")
      BY <2>1, <2>6, Zenon DEF Finish, Verdict
    <3>2. /\ DOMAIN state' = Fields /\ state'.response.case = Case.id /\ state'.response.body = reply.body
          /\ state'.jose = state.jose /\ state'.client = state.client /\ state'.url = state.url
          /\ state'.token = state.token /\ state'.deleted = state.deleted
      BY <3>1, Answers, Zenon
    <3>3. reply.body.client \in {None, Case.id}
      <4>1. \A body \in BodiesOf(Case.id) \union ErrorBodies : body.client \in {None, Case.id}
        BY SMTT(60) DEF BodiesOf, ErrorBodies, Body, NoBody
      <4>2. reply.body \in BodiesOf(Case.id) \union ErrorBodies
        BY <2>1, SMTT(60) DEF RegistrationReplies, Reply, ErrorBodies, NewClient
      <4> QED
        BY <4>1, <4>2, Zenon
    <3>4. Answered("passed") /\ Signed("passed") /\ Captured("passed") /\ Issued("passed") /\ Known
      BY <1>1, <2>4, <3>2, <3>3, ZenonT(60) DEF Answered, Signed, Captured, Issued, Known, Requests
    <3>5. Tried("passed")
      BY <1>1, <2>3, <3>1, <3>2, <3>4, ZenonT(60) DEF Tried
    <3> QED
      BY <3>5, Zenon
  <2> QED
    BY <2>5, <2>6, Zenon
<1> QED
  BY <1>2, <1>3, Zenon

LEMMA TriedParse ==
    ASSUME DOMAIN state = Fields, ParseRegistration
    PROVE  \E status \in {"passed", "failed"} : Tried(status)
<1>1. pc = "step" /\ UNCHANGED server /\ Now = "parse-registration-success"
  BY Zenon DEF ParseRegistration, AtStep, Now
<1> DEFINE body == state.response.body
<1>2. CASE BadRegistration(body)
  BY <1>1, <1>2, TriedReading, Zenon DEF ParseRegistration
<1>3. CASE ~BadRegistration(body)
  <2>1. /\ state' = [state EXCEPT !.client = body.client, !.secret = body.secret,
                                  !.url = IF body.uri = None THEN body.client ELSE body.uri]
        /\ Advance("passed")
    BY <1>3, Zenon DEF ParseRegistration, Finish
  <2>2. body.client # None /\ (IF body.uri = None THEN body.client ELSE body.uri) = body.client
    BY <1>3, Zenon DEF BadRegistration
  <2>3. /\ DOMAIN state' = Fields /\ state'.client = body.client /\ state'.url = body.client
        /\ state'.response = state.response /\ state'.jose = state.jose
        /\ state'.token = state.token /\ state'.deleted = state.deleted
    BY <2>1, <2>2, Zenon DEF Fields
  <2>4. Answered("passed") /\ Signed("passed") /\ Captured("passed") /\ Issued("passed") /\ Known /\ Sent
    BY <1>1, <2>2, <2>3, Zenon DEF Answered, Signed, Captured, Issued, Known, Sent, Requests, server
  <2>5. Tried("passed")
    BY <1>1, <2>1, <2>3, <2>4, ZenonT(60) DEF Tried
  <2> QED
    BY <2>5, Zenon
<1> QED
  BY <1>2, <1>3, Zenon

LEMMA TriedEmpty ==
    ASSUME DOMAIN state = Fields, SetEmptyBearer
    PROVE  \E status \in {"passed", "failed"} : Tried(status)
<1>1. pc = "step" /\ UNCHANGED server /\ Now = "set-empty-bearer-token"
  BY Zenon DEF SetEmptyBearer, AtStep, Now
<1>2. state' = [state EXCEPT !.token = Empty] /\ Advance("passed")
  BY Zenon DEF SetEmptyBearer, Finish
<1>3. /\ DOMAIN state' = Fields /\ state'.client = state.client /\ state'.url = state.url
      /\ state'.response = state.response /\ state'.jose = state.jose
      /\ state'.token = Empty /\ state'.deleted = state.deleted
  BY <1>2, Zenon DEF Fields
<1>4. Answered("passed") /\ Signed("passed") /\ Captured("passed") /\ Issued("passed") /\ Known /\ Sent
  BY <1>1, <1>3, Zenon DEF Answered, Signed, Captured, Issued, Known, Sent, Requests, server
<1>5. Tried("passed")
  BY <1>1, <1>2, <1>3, <1>4, ZenonT(60) DEF Tried
<1> QED
  BY <1>5, Zenon

LEMMA TriedToken ==
    ASSUME DOMAIN state = Fields, RequestToken
    PROVE  \E status \in {"passed", "failed"} : Tried(status)
<1>1. pc = "step" /\ UNCHANGED server /\ Now = "request-client-credentials-token"
  BY Zenon DEF RequestToken, AtStep, Now
<1>2. CASE ~CanAuthenticate \/ \E reply \in TokenReplies : Raises(reply) /\ Finish("failed", state)
  <2>1. Finish("failed", state)
    BY <1>2, Zenon DEF RequestToken
  <2> QED
    BY <1>1, <2>1, TriedReading, Zenon
<1>3. CASE CanAuthenticate /\ \E reply \in TokenReplies : ~Raises(reply) /\
              Finish(Verdict(reply.status = 200 /\ reply.done),
                     [state EXCEPT !.response = Response(reply), !.token = IF reply.done THEN state.client ELSE @])
  <2>1. PICK reply \in TokenReplies :
              Finish(Verdict(reply.status = 200 /\ reply.done),
                     [state EXCEPT !.response = Response(reply), !.token = IF reply.done THEN state.client ELSE @])
    BY <1>3, Zenon
  <2>2. PICK status \in {"passed", "failed"} :
           /\ status = Verdict(reply.status = 200 /\ reply.done)
           /\ status = "passed" => reply.done
    BY ZenonT(60) DEF Verdict
  <2>3. /\ state' = [state EXCEPT !.response = Response(reply), !.token = IF reply.done THEN state.client ELSE @]
        /\ Advance(status)
    BY <2>1, <2>2, Zenon DEF Finish
  <2>4. /\ DOMAIN state' = Fields /\ state'.response.case = Case.id
        /\ state'.jose = state.jose /\ state'.client = state.client /\ state'.url = state.url
        /\ state'.deleted = state.deleted
        /\ state'.token = IF reply.done THEN state.client ELSE state.token
    BY <2>3, Zenon DEF Fields, Response
  <2>5. state.client # None
    BY <1>3, Zenon DEF CanAuthenticate
  <2>6. Answered(status) /\ Signed(status) /\ Captured(status) /\ Known /\ Sent
    BY <1>1, <2>4, Zenon DEF Answered, Signed, Captured, Known, Sent, Requests, server
  <2>7. Issued(status)
    BY <1>1, <2>2, <2>4, <2>5, ZenonT(60) DEF Issued
  <2> QED
    BY <1>1, <2>3, <2>4, <2>6, <2>7, ZenonT(60) DEF Tried
<1> QED
  BY <1>2, <1>3, Zenon DEF RequestToken

\* A management request that was sent.
LEMMA TriedManaged ==
    ASSUME DOMAIN state = Fields, pc = "step", Now \in {"get-client", "put-client"}, CanManage,
           live' = live, unconfirmed' = unconfirmed,
           NEW jose, Now = "put-client" => jose = state.jose,
           last' = Request(MethodOf[Now], state.url, state.token, jose),
           NEW status \in {"passed", "failed"}, NEW reply, status = "passed" => ~Raises(reply),
           Finish(status, IF Raises(reply) THEN state ELSE [state EXCEPT !.response = Response(reply)])
    PROVE  Tried(status)
<1>1. Advance(status)
  BY Zenon DEF Finish
<1>2. DOMAIN MethodOf = {"get-client", "put-client", "delete-client"}
  BY Zenon DEF MethodOf
<1>3. Sent
  BY <1>2, Zenon DEF Sent, Request
<1>4. CASE Raises(reply)
  <2>1. state' = state /\ status = "failed"
    BY <1>4, Zenon DEF Finish
  <2>2. Answered(status) /\ Signed(status) /\ Captured(status) /\ Issued(status) /\ Known
    BY <2>1, Zenon DEF Answered, Signed, Captured, Issued, Known, Requests
  <2> QED
    BY <1>1, <1>3, <2>1, <2>2, Zenon DEF Tried
<1>5. CASE ~Raises(reply)
  <2>1. state' = [state EXCEPT !.response = Response(reply)]
    BY <1>5, Zenon DEF Finish
  <2>2. /\ DOMAIN state' = Fields /\ state'.response.case = Case.id /\ state'.response.body = reply.body
        /\ state'.jose = state.jose /\ state'.client = state.client /\ state'.url = state.url
        /\ state'.token = state.token /\ state'.deleted = state.deleted
    BY <2>1, Answers, Zenon
  <2>3. Answered(status) /\ Signed(status) /\ Captured(status) /\ Issued(status) /\ Known
    BY <2>2, Zenon DEF Answered, Signed, Captured, Issued, Known, Requests
  <2> QED
    BY <1>1, <1>3, <2>2, <2>3, Zenon DEF Tried
<1> QED
  BY <1>4, <1>5, Zenon

LEMMA TriedGet ==
    ASSUME DOMAIN state = Fields, GetClient
    PROVE  \E status \in {"passed", "failed"} : Tried(status)
<1>1. pc = "step" /\ live' = live /\ unconfirmed' = unconfirmed /\ Now = "get-client"
  BY Zenon DEF GetClient, AtStep, Now
<1>2. MethodOf[Now] = "GET"
  BY <1>1, Zenon DEF MethodOf
<1>3. CASE ~CanManage
  <2>1. Finish("failed", state) /\ UNCHANGED server
    BY <1>1, <1>3, Zenon DEF GetClient, server
  <2> QED
    BY <1>1, <2>1, TriedReading, Zenon
<1>4. CASE CanManage
  <2>1. PICK reply \in ManagementReplies(state.client) :
           Finish(Verdict(~Raises(reply)),
                  IF Raises(reply) THEN state ELSE [state EXCEPT !.response = Response(reply)])
    BY <1>4, Zenon DEF GetClient
  <2>2. last' = Request("GET", state.url, state.token, None)
    BY <1>4, Zenon DEF GetClient
  <2>3. PICK status \in {"passed", "failed"} : status = Verdict(~Raises(reply)) /\ (status = "passed" => ~Raises(reply))
    BY Zenon DEF Verdict
  <2>4. Tried(status)
    BY <1>1, <1>2, <1>4, <2>1, <2>2, <2>3, TriedManaged, ZenonT(60)
  <2> QED
    BY <2>4, Zenon
<1> QED
  BY <1>3, <1>4, Zenon

LEMMA TriedPut ==
    ASSUME DOMAIN state = Fields, PutClient
    PROVE  \E status \in {"passed", "failed"} : Tried(status)
<1>1. pc = "step" /\ live' = live /\ unconfirmed' = unconfirmed /\ Now = "put-client"
  BY Zenon DEF PutClient, AtStep, Now
<1>2. MethodOf[Now] = "PUT"
  BY <1>1, Zenon DEF MethodOf
<1>3. CASE ~CanManage \/ state.jose = None
  <2>1. Finish("failed", state) /\ UNCHANGED server
    BY <1>1, <1>3, Zenon DEF PutClient, server
  <2> QED
    BY <1>1, <2>1, TriedReading, Zenon
<1>4. CASE ~(~CanManage \/ state.jose = None)
  <2>1. PICK reply \in ManagementReplies(state.client) :
           Finish(Verdict(~Raises(reply) /\ (reply.status = 200 => ~BadRegistration(reply.body))),
                  IF Raises(reply) THEN state ELSE [state EXCEPT !.response = Response(reply)])
    BY <1>4, Zenon DEF PutClient
  <2>2. last' = Request("PUT", state.url, state.token, state.jose)
    BY <1>4, Zenon DEF PutClient
  <2>3. PICK status \in {"passed", "failed"} :
           /\ status = Verdict(~Raises(reply) /\ (reply.status = 200 => ~BadRegistration(reply.body)))
           /\ status = "passed" => ~Raises(reply)
    BY Zenon DEF Verdict
  <2>4. Tried(status)
    BY <1>1, <1>2, <1>4, <2>1, <2>2, <2>3, TriedManaged, ZenonT(60)
  <2> QED
    BY <2>4, Zenon
<1> QED
  BY <1>3, <1>4, Zenon

LEMMA TriedDelete ==
    ASSUME DOMAIN state = Fields, DeleteClient
    PROVE  \E status \in {"passed", "failed"} : Tried(status)
<1>1. pc = "step" /\ unconfirmed' = unconfirmed /\ Now = "delete-client"
  BY Zenon DEF DeleteClient, AtStep, Now
<1>2. MethodOf[Now] = "DELETE" /\ Now \in DOMAIN MethodOf
  BY <1>1, Zenon DEF MethodOf
<1>3. CASE ~CanManage
  <2>1. Finish("failed", state) /\ UNCHANGED server
    BY <1>1, <1>3, Zenon DEF DeleteClient, server
  <2> QED
    BY <1>1, <2>1, TriedReading, Zenon
<1>4. CASE CanManage
  <2>1. PICK reply \in DeleteReplies :
           /\ Finish(Verdict(reply.status = 204),
                     IF Raises(reply) THEN state
                     ELSE [state EXCEPT !.response = Response(reply), !.deleted = @ \/ reply.status = 204])
           /\ Deletes(state.url, reply)
    BY <1>4, Zenon DEF DeleteClient
  <2>2. last' = Request("DELETE", state.url, state.token, None)
    BY <1>4, Zenon DEF DeleteClient
  <2>3. reply.status = 204 => reply.done /\ ~Raises(reply)
    BY <2>1 DEF DeleteReplies, Reply, Raises, NoReply
  <2>4. Sent
    BY <1>1, <1>2, <1>4, <2>2, Zenon DEF Sent, Request
  <2>5. \A id \in live' : id \in live
    BY <2>1, Zenon DEF Deletes
  <2>6. PICK status \in {"passed", "failed"} : status = Verdict(reply.status = 204) /\ (status = "passed" => reply.status = 204)
    BY Zenon DEF Verdict
  <2>7. Advance(status)
    BY <2>1, <2>6, Zenon DEF Finish
  <2>8. CASE Raises(reply)
    <3>1. state' = state /\ status = "failed"
      BY <2>1, <2>3, <2>6, <2>8, Zenon DEF Finish
    <3>2. Answered(status) /\ Signed(status) /\ Captured(status) /\ Issued(status) /\ Known
      BY <1>1, <2>5, <3>1, Zenon DEF Answered, Signed, Captured, Issued, Known, Requests
    <3> QED
      BY <1>1, <2>4, <2>7, <3>1, <3>2, ZenonT(60) DEF Tried
  <2>9. CASE ~Raises(reply)
    <3>1. state' = [state EXCEPT !.response = Response(reply), !.deleted = @ \/ reply.status = 204]
      BY <2>1, <2>9, Zenon DEF Finish
    <3>2. /\ DOMAIN state' = Fields /\ state'.response.case = Case.id
          /\ state'.jose = state.jose /\ state'.client = state.client /\ state'.url = state.url
          /\ state'.token = state.token /\ (state'.deleted <=> (state.deleted \/ reply.status = 204))
      BY <3>1, ZenonT(60) DEF Fields, Response
    <3>3. reply.status = 204 => state.url \notin live'
      BY <2>1, <2>3, Zenon DEF Deletes
    <3>4. Known
      BY <1>1, <1>4, <2>5, <3>2, <3>3, ZenonT(60) DEF Known, CanManage
    <3>5. Answered(status) /\ Signed(status) /\ Captured(status) /\ Issued(status)
      BY <1>1, <3>2, Zenon DEF Answered, Signed, Captured, Issued, Requests
    <3> QED
      BY <1>1, <2>4, <2>7, <3>2, <3>4, <3>5, Zenon DEF Tried
  <2> QED
    BY <2>8, <2>9, Zenon
<1> QED
  BY <1>3, <1>4, Zenon

\* Nothing happens to the scenario's state.
Rests ==
    /\ UNCHANGED <<state, server>>
    /\ pc = "start" /\ pc' = "case" => ~BadPlan(CompiledPlan(selected), selected)

\* _best_effort_cleanup, and the state of the next scenario.
Cleaned ==
    /\ state' = IF at.scenario < Len(plan) THEN FreshState ELSE state
    /\ \/ ~CanCleanUp /\ UNCHANGED server
       \/ /\ CanCleanUp
          /\ last'.method = "DELETE" /\ last'.scenario = Scenario.id
          /\ last'.client = state.url /\ last'.token = state.token
          /\ live' \subseteq live /\ unconfirmed \subseteq unconfirmed'
          /\ state.url \notin live' \/ state.url \in unconfirmed'

LEMMA StateSteps ==
    ASSUME Types, DOMAIN state = Fields, [Next]_vars
    PROVE  \/ \E status \in {"passed", "failed"} : Tried(status)
           \/ Rests /\ (Stays \/ CaseEnds("skipped"))
           \/ Cleaned /\ ScenarioEnds
<1>1. CASE Start \/ StartFails
  BY <1>1, Zenon DEF Start, StartFails, Rests, Stays, server
<1>2. CASE SkipCase
  <2>1. results' = Report("skipped")
    BY <1>2, SkippedReport, Zenon DEF Types, SkipCase
  <2> QED
    BY <1>2, <2>1, Zenon DEF SkipCase, CaseEnds, Rests, server
<1>3. CASE EnterCase \/ GenerateRaises \/ (\E fault \in FileFaults : StatementChanges(fault))
  BY <1>3, Zenon DEF EnterCase, GenerateRaises, StatementChanges, AtStep, Rests, Stays, server
<1>4. CASE UNCHANGED vars
  BY <1>4, Zenon DEF vars, Rests, Stays, server
<1>5. CASE NoCleanup
  BY <1>5, Zenon DEF NoCleanup, NextScenario, Cleaned, ScenarioEnds, GoOn
<1>6. CASE Cleanup
  <2>1. ScenarioEnds /\ state' = IF at.scenario < Len(plan) THEN FreshState ELSE state
    BY <1>6, ZenonT(60) DEF Cleanup, NextScenario, ScenarioEnds, GoOn
  <2>2. PICK reply \in DeleteReplies :
           /\ Deletes(state.url, reply)
           /\ unconfirmed' = IF reply.status = 204 THEN unconfirmed ELSE unconfirmed \union {state.url}
    BY <1>6, Zenon DEF Cleanup
  <2>3. reply.status = 204 => reply.done
    BY <2>2 DEF DeleteReplies, Reply, NoReply
  <2>4. live' \subseteq live /\ (reply.status = 204 => state.url \notin live')
    BY <2>2, <2>3, ZenonT(60) DEF Deletes
  <2>5. unconfirmed \subseteq unconfirmed' /\ (reply.status # 204 => state.url \in unconfirmed')
    BY <2>2, Zenon
  <2>6. CanCleanUp /\ last' = Request("DELETE", state.url, state.token, None)
    BY <1>6, Zenon DEF Cleanup
  <2> QED
    BY <2>1, <2>4, <2>5, <2>6, ZenonT(60) DEF Cleaned, Request
<1>7. CASE ValidateDiscovery \/ GenerateRegistration \/ PostRegistration \/ ParseRegistration \/ RequestToken
  BY <1>7, TriedDiscovery, TriedGenerate, TriedPost, TriedParse, TriedToken, ZenonT(60)
<1>8. CASE DeleteClient \/ GetClient \/ PutClient
  BY <1>8, TriedDelete, TriedGet, TriedPut, ZenonT(60)
<1>9. CASE AssertStatus \/ ValidateResponse \/ ParseRetrieved \/ SetEmptyBearer \/ ValidateError
  BY <1>9, TriedChecks, TriedEmpty, Zenon
<1> QED
  BY <1>1, <1>2, <1>3, <1>4, <1>5, <1>6, <1>7, <1>8, <1>9, ZenonT(60) DEF Next, Work, Ended

-----------------------------------------------------------------------------
(* Nothing is stale.                                                       *)

\* What the steps of the case so far left in the state.
CaseSoFar ==
    pc = "step" =>
        \A h \in 1..(at.step - 1) :
            /\ Case.steps[h] \in Requests => state.response.case = Case.id
            /\ Case.steps[h] = "generate-registration-jose" => state.jose = Case.id
            /\ Case.steps[h] = "post-registration" /\ (\A m \in (h + 1)..(at.step - 1) : Case.steps[m] \notin Requests)
                 => state.response.body.client \in {None, Case.id}

JoseInv == last.method \in {"POST", "PUT"} => last.jose = last.case

LEMMA SameCase ==
    ASSUME Types, plan' = plan, StepPasses
    PROVE  Scenario' = Scenario /\ Case' = Case /\ at'.step = at.step + 1
<1>1. at'.scenario = at.scenario /\ at'.case = at.case /\ at'.step = at.step + 1
  BY Zenon DEF StepPasses, Types
<1> QED
  BY <1>1, Zenon DEF Scenario, Case

LEMMA CaseSoFarStep ==
    ASSUME Types, DOMAIN state = Fields, CaseSoFar, [Next]_vars
    PROVE  CaseSoFar'
<1>1. plan' = plan
  BY Kinds, Zenon
<1>2. ASSUME NEW status \in {"passed", "failed"}, Tried(status), StepPasses, status = "passed"
      PROVE  CaseSoFar'
  <2>1. Case' = Case /\ at'.step = at.step + 1
    BY <1>1, <1>2, SameCase, Zenon
  <2>2. Answered("passed") /\ Signed("passed") /\ pc = "step"
    BY <1>2, Zenon DEF Tried
  <2>3. at.step \in Nat /\ at.step >= 1
    BY Here
  <2>4. ASSUME NEW h \in 1..at.step
        PROVE  /\ Case.steps[h] \in Requests => state'.response.case = Case.id
               /\ Case.steps[h] = "generate-registration-jose" => state'.jose = Case.id
               /\ Case.steps[h] = "post-registration" /\ (\A m \in (h + 1)..at.step : Case.steps[m] \notin Requests)
                    => state'.response.body.client \in {None, Case.id}
    <3>1. CASE h = at.step
      BY <2>2, <3>1, Zenon DEF Answered, Signed, Now
    <3>2. CASE h # at.step
      <4>1. h \in 1..(at.step - 1) /\ at.step \in (h + 1)..at.step
            /\ \A m \in (h + 1)..(at.step - 1) : m \in (h + 1)..at.step
        BY <2>3, <2>4, <3>2, SMTT(60)
      <4>2. /\ Case.steps[h] \in Requests => state.response.case = Case.id
            /\ Case.steps[h] = "generate-registration-jose" => state.jose = Case.id
            /\ Case.steps[h] = "post-registration" /\ (\A m \in (h + 1)..(at.step - 1) : Case.steps[m] \notin Requests)
                 => state.response.body.client \in {None, Case.id}
        BY <2>2, <4>1, Zenon DEF CaseSoFar
      <4> QED
        BY <2>2, <4>1, <4>2, ZenonT(60) DEF Answered, Signed, Now
    <3> QED
      BY <3>1, <3>2, Zenon
  <2>5. at'.step - 1 = at.step
    BY <2>1, <2>3
  <2> QED
    BY <2>1, <2>4, <2>5, Zenon DEF CaseSoFar
<1>3. ASSUME NEW status \in Statuses, CaseEnds(status) PROVE CaseSoFar'
  <2>1. pc' # "step"
    BY <1>1, <1>3, Leaving, ZenonT(60) DEF CaseEnds
  <2> QED
    BY <2>1, Zenon DEF CaseSoFar
<1>4. CASE Rests /\ Stays
  <2>1. at' = at /\ Case' = Case /\ state' = state
    BY <1>1, <1>4, Zenon DEF Rests, Stays, Case, Scenario
  <2>2. CASE pc' = pc
    BY <2>1, <2>2, ZenonT(60) DEF CaseSoFar
  <2>3. CASE pc' # pc /\ pc' = "step"
    <3>1. at'.step = 1
      BY <1>4, <2>1, <2>3, ZenonT(60) DEF Stays, Types
    <3> QED
      BY <3>1 DEF CaseSoFar
  <2>4. CASE pc' # "step"
    BY <2>4, Zenon DEF CaseSoFar
  <2> QED
    BY <2>2, <2>3, <2>4, ZenonT(60)
<1>5. CASE ScenarioEnds
  BY <1>5, Zenon DEF ScenarioEnds, GoOn, CaseSoFar
<1>6. ASSUME NEW status \in {"passed", "failed"}, Tried(status) PROVE CaseSoFar'
  <2>1. (StepPasses /\ status = "passed") \/ CaseEnds(status)
    BY <1>6, Advances, Zenon DEF Tried
  <2> QED
    BY <1>2, <1>3, <1>6, <2>1, ZenonT(60) DEF Statuses
<1> QED
  BY <1>3, <1>4, <1>5, <1>6, StateSteps, ZenonT(60) DEF Statuses

\* What the contract says of the case that is run.
LEMMA SoundHere ==
    ASSUME Types
    PROVE  SoundScenario(Scenario) /\ SoundCase(Case)
<1>1. \A i \in DOMAIN plan : SoundScenario(plan[i]) /\ \A j \in DOMAIN plan[i].cases : SoundCase(plan[i].cases[j])
  BY PlanFacts, ZenonT(60) DEF SoundPlan, SoundScenario
<1> QED
  BY <1>1, Zenon DEF Types, Scenario, Case

LEMMA JoseInvStep ==
    ASSUME Types, DOMAIN state = Fields, CaseSoFar, JoseInv, [Next]_vars
    PROVE  JoseInv'
<1>1. ASSUME NEW status \in {"passed", "failed"}, Tried(status) PROVE JoseInv'
  <2>1. Sent /\ pc = "step"
    BY <1>1, Zenon DEF Tried
  <2>2. Now \in {"post-registration", "put-client"} => state.jose = Case.id
    <3>1. SUFFICES ASSUME Now \in {"post-registration", "put-client"} PROVE state.jose = Case.id
      BY Zenon
    <3>2. PICK h \in 1..(at.step - 1) : Case.steps[h] = "generate-registration-jose"
      BY <3>1, SoundHere, Zenon DEF SoundCase, Now, Types
    <3> QED
      BY <2>1, <3>2, Zenon DEF CaseSoFar
  <2>3. MethodOf["get-client"] = "GET" /\ MethodOf["put-client"] = "PUT" /\ MethodOf["delete-client"] = "DELETE"
        /\ DOMAIN MethodOf = {"get-client", "put-client", "delete-client"}
    BY Zenon DEF MethodOf
  <2> QED
    BY <2>1, <2>2, <2>3, ZenonT(60) DEF Sent, JoseInv
<1>2. CASE Rests
  BY <1>2, Zenon DEF Rests, server, JoseInv
<1>3. CASE Cleaned
  BY <1>3, Zenon DEF Cleaned, server, JoseInv
<1> QED
  BY <1>1, <1>2, <1>3, StateSteps, Zenon

LEMMA FieldsStep ==
    ASSUME Types, DOMAIN state = Fields, [Next]_vars
    PROVE  DOMAIN state' = Fields
<1>1. DOMAIN FreshState = Fields
  BY DEF FreshState, Fields
<1> QED
  BY <1>1, StateSteps, Zenon DEF Tried, Rests, Cleaned

\* The invariant of the state within a case.
StaleInv == DOMAIN state = Fields /\ CaseSoFar /\ JoseInv

LEMMA StaleInvHolds == Spec => [](RInv /\ StaleInv)
<1>1. Init => StaleInv
  <2>1. DOMAIN FreshState = Fields
    BY DEF FreshState, Fields
  <2>2. SUFFICES ASSUME Init PROVE StaleInv
    BY Zenon
  <2>3. state = FreshState /\ pc = "start" /\ last = NoRequest
    BY <2>2, Zenon DEF Init
  <2>4. last.method = "none"
    BY <2>3, Zenon DEF NoRequest, None
  <2> QED
    BY <2>1, <2>3, <2>4, Zenon DEF StaleInv, CaseSoFar, JoseInv
<1>2. RInv /\ StaleInv /\ [Next]_vars => StaleInv'
  BY FieldsStep, CaseSoFarStep, JoseInvStep, Zenon DEF RInv, StaleInv
<1> QED
  BY <1>1, <1>2, RInvHolds, PTL DEF Spec

(***************************************************************************)
(* last_response and signed_registration_jose are never of another case    *)
(* when a step reads or sends them, though _run_case does not clear them.  *)
(***************************************************************************)
THEOREM NothingIsStaleHolds == Spec => []NothingIsStale
<1>1. RInv /\ StaleInv => NothingIsStale
  <2>1. SUFFICES ASSUME RInv, StaleInv PROVE NothingIsStale
    BY Zenon
  <2>2. ASSUME pc = "step", Case.steps[at.step] \in ReadsResponse PROVE state.response.case = Case.id
    <3>1. PICK h \in 1..(at.step - 1) : Case.steps[h] \in Requests
      BY <2>1, <2>2, SoundHere, ZenonT(60) DEF RInv, SoundCase, Types
    <3> QED
      BY <2>1, <2>2, <3>1, ZenonT(60) DEF StaleInv, CaseSoFar
  <2> QED
    BY <2>1, <2>2, Zenon DEF NothingIsStale, StaleInv, JoseInv
<1> QED
  BY <1>1, StaleInvHolds, PTL

-----------------------------------------------------------------------------
(* The client of the scenario.                                             *)

\* The management URL is the one of a client that a case of the scenario
\* registered, and the token is that client's.
OwnInv ==
    /\ state.client = state.url
    /\ state.token \in {None, Empty, state.url}
    /\ state.url # None =>
           \E j \in DOMAIN Scenario.cases : \E k \in DOMAIN Scenario.cases[j].steps :
               /\ Scenario.cases[j].steps[k] = "parse-registration-success"
               /\ Scenario.cases[j].id = state.url
               /\ Reached(at.scenario, j, k)

\* A registration is parsed once in a scenario.
LEMMA FirstParse ==
    ASSUME Types, OwnInv, pc = "step", Now = "parse-registration-success"
    PROVE  state.url = None
<1>1. SUFFICES ASSUME state.url # None PROVE FALSE
  BY Zenon
<1>2. PICK j \in DOMAIN Scenario.cases : \E k \in DOMAIN Scenario.cases[j].steps :
         /\ Scenario.cases[j].steps[k] = "parse-registration-success"
         /\ Reached(at.scenario, j, k)
  BY <1>1, Zenon DEF OwnInv
<1>3. PICK k \in DOMAIN Scenario.cases[j].steps :
         /\ Scenario.cases[j].steps[k] = "parse-registration-success"
         /\ Reached(at.scenario, j, k)
  BY <1>2, Zenon
<1>4. at.case \in DOMAIN Scenario.cases /\ at.step \in DOMAIN Scenario.cases[at.case].steps
      /\ Scenario.cases[at.case].steps[at.step] = "parse-registration-success"
  BY Zenon DEF Types, Case, Now
<1>5. j = at.case /\ k = at.step
  BY <1>3, <1>4, SoundHere, ZenonT(60) DEF SoundScenario
<1> QED
  BY <1>3, <1>5, Here, SMTT(60) DEF Reached, CaseOver, Over

\* The client that is captured is the one the case registered.
LEMMA CapturesOwn ==
    ASSUME Types, StaleInv, pc = "step", Now = "parse-registration-success"
    PROVE  state.response.body.client \in {None, Case.id}
<1>1. PICK h \in 1..(at.step - 1) : /\ Case.steps[h] = "post-registration"
                                    /\ \A m \in (h + 1)..(at.step - 1) : Case.steps[m] \notin Requests
  BY SoundHere, Zenon DEF SoundCase, Now, Types
<1> QED
  BY <1>1, Zenon DEF StaleInv, CaseSoFar

LEMMA StaysInScenario ==
    ASSUME Types, plan' = plan, Stays \/ StepPasses \/ \E status \in Statuses : CaseEnds(status)
    PROVE  at'.scenario = at.scenario
<1>1. CASE Stays
  BY <1>1, Zenon DEF Stays
<1>2. CASE StepPasses
  BY <1>2, Zenon DEF StepPasses, Types
<1>3. ASSUME NEW status \in Statuses, CaseEnds(status) PROVE at'.scenario = at.scenario
  <2>1. LeaveCase
    BY <1>3, Zenon DEF CaseEnds
  <2>2. at' = at \/ at' = [scenario |-> at.scenario, case |-> at.case + 1, step |-> 1]
    BY <2>1, Leaving, Zenon
  <2> QED
    BY <2>2
<1> QED
  BY <1>1, <1>2, <1>3, Zenon

LEMMA OwnInvStep ==
    ASSUME Types, StaleInv, OwnInv, [Next]_vars
    PROVE  OwnInv'
<1>1. plan' = plan
  BY Kinds, Zenon
<1>i. PICK i \in DOMAIN plan : i = at.scenario
  BY Zenon DEF Types
<1>2. ASSUME at'.scenario = at.scenario, state'.url = state.url, state'.client = state.client,
             state'.token \in {Empty, state.token, state.client}
      PROVE  OwnInv'
  <2>1. Scenario' = Scenario
    BY <1>1, <1>2, Zenon DEF Scenario
  <2>2. state.url # None =>
           \E j \in DOMAIN Scenario.cases : \E k \in DOMAIN Scenario.cases[j].steps :
               /\ Scenario.cases[j].steps[k] = "parse-registration-success"
               /\ Scenario.cases[j].id = state.url
               /\ Reached(i, j, k)'
    BY <1>i, ReachedGrows, Zenon DEF OwnInv, Scenario
  <2> QED
    BY <1>i, <1>2, <2>1, <2>2, ZenonT(60) DEF OwnInv
<1>3. ASSUME NEW status \in {"passed", "failed"}, Tried(status) PROVE OwnInv'
  <2>1. /\ pc = "step" /\ Captured(status) /\ Issued(status)
        /\ (StepPasses /\ status = "passed") \/ CaseEnds(status)
    BY <1>3, Advances, Zenon DEF Tried
  <2>2. at'.scenario = at.scenario
    BY <1>1, <2>1, StaysInScenario, ZenonT(60) DEF Statuses
  <2>3. CASE ~(Now = "parse-registration-success" /\ status = "passed")
    <3>1. state'.url = state.url /\ state'.client = state.client
      BY <2>1, <2>3, Zenon DEF Captured
    <3>2. state'.token \in {Empty, state.token, state.client}
      BY <2>1, Zenon DEF Issued
    <3> QED
      BY <1>2, <2>2, <3>1, <3>2, ZenonT(60)
  <2>4. CASE Now = "parse-registration-success" /\ status = "passed"
    <3>1. state.url = None /\ state.response.body.client \in {None, Case.id}
      BY <2>1, <2>4, FirstParse, CapturesOwn, ZenonT(60)
    <3>2. state'.url = Case.id /\ state'.client = Case.id
      BY <2>1, <2>4, <3>1, ZenonT(60) DEF Captured
    <3>3. state'.token = state.token /\ state'.token \in {None, Empty}
      BY <2>1, <2>4, <3>1, ZenonT(60) DEF Issued, OwnInv
    <3>4. Scenario' = Scenario
      BY <1>1, <2>2, ZenonT(60) DEF Scenario
    <3>5. PICK j \in DOMAIN Scenario.cases : j = at.case
      BY Zenon DEF Types
    <3>6. PICK k \in DOMAIN Scenario.cases[j].steps : k = at.step
      BY <3>5, Zenon DEF Types, Case
    <3>7. Reached(i, j, k)'
      BY <1>1, <1>i, <2>1, <3>5, <3>6, ReachedInStep, ReachedInEnd, ZenonT(60) DEF Scenario, Statuses
    <3>8. Scenario.cases[j].steps[k] = "parse-registration-success" /\ Scenario.cases[j].id = Case.id
      BY <2>4, <3>5, <3>6, ZenonT(60) DEF Now, Case
    <3> QED
      BY <1>i, <2>2, <3>2, <3>3, <3>4, <3>7, <3>8, ZenonT(60) DEF OwnInv
  <2> QED
    BY <2>3, <2>4, Zenon
<1>4. CASE Rests /\ (Stays \/ CaseEnds("skipped"))
  <2>1. at'.scenario = at.scenario
    BY <1>1, <1>4, StaysInScenario, ZenonT(60) DEF Statuses
  <2> QED
    BY <1>2, <1>4, <2>1, ZenonT(60) DEF Rests
<1>5. CASE Cleaned /\ ScenarioEnds
  <2>1. CASE at.scenario < Len(plan)
    <3>1. state'.url = None /\ state'.client = None /\ state'.token = None
      BY <1>5, <2>1, Zenon DEF Cleaned, FreshState
    <3> QED
      BY <3>1, Zenon DEF OwnInv
  <2>2. CASE ~(at.scenario < Len(plan))
    BY <1>2, <1>5, <2>2, ZenonT(60) DEF Cleaned, ScenarioEnds, GoOn
  <2> QED
    BY <2>1, <2>2, Zenon
<1> QED
  BY <1>3, <1>4, <1>5, StateSteps, ZenonT(60) DEF StaleInv

GateInv == pc \notin {"start", "raised"} => ~BadPlan(CompiledPlan(selected), selected)

LEMMA GateInvStep ==
    ASSUME Types, StaleInv, GateInv, [Next]_vars
    PROVE  GateInv'
<1>1. selected' = selected
  BY Kinds, Zenon
<1>2. ASSUME NEW status, Tried(status) PROVE GateInv'
  BY <1>1, <1>2, Zenon DEF Tried, GateInv
<1>3. CASE Rests /\ (Stays \/ CaseEnds("skipped"))
  BY <1>1, <1>3, Zenon DEF Rests, Stays, CaseEnds, GateInv
<1>4. CASE ScenarioEnds
  BY <1>1, <1>4, Zenon DEF ScenarioEnds, GateInv
<1> QED
  BY <1>2, <1>3, <1>4, StateSteps, ZenonT(60) DEF StaleInv

\* A management request is sent with a method the participant selected.
LEMMA MethodSelected ==
    ASSUME Types, GateInv, pc = "step", Now \in DOMAIN MethodOf
    PROVE  MethodOf[Now] \in selected
<1>1. MethodOf[Now] \in Scenario.methods \union Case.methods
  BY SoundHere, Zenon DEF SoundScenario, Types, Case, Now
<1>2. PICK window \in Windows : plan = PlanOf(selected, window)
  BY Zenon DEF Types
<1>3. PICK m \in DOMAIN CompiledPlan(selected) : Scenario = CompiledPlan(selected)[m]
  BY <1>2, ContractAssumption, ZenonT(60) DEF Types, Scenario
<1>4. Case \in Range(CompiledPlan(selected)[m].cases)
  BY <1>3, Zenon DEF Types, Case, Range
<1>5. CompiledPlan(selected)[m].methods \union Case.methods \subseteq selected
  BY <1>4, ZenonT(60) DEF GateInv, BadPlan
<1> QED
  BY <1>1, <1>3, <1>5, ZenonT(60)

LEMMA ManagementStep ==
    ASSUME Types, StaleInv, OwnInv, GateInv, ManagementStaysInTheScenario, [Next]_vars
    PROVE  ManagementStaysInTheScenario'
<1>1. plan' = plan /\ selected' = selected
  BY Kinds, Zenon
<1>2. ASSUME state.url # None
      PROVE  \E i \in DOMAIN plan : plan[i].id = Scenario.id /\ \E c \in Range(plan[i].cases) : c.id = state.url
  <2>1. PICK j \in DOMAIN Scenario.cases : Scenario.cases[j].id = state.url
    BY <1>2, Zenon DEF OwnInv
  <2>2. Scenario.cases[j] \in Range(Scenario.cases)
    BY <2>1, Zenon DEF Range
  <2> QED
    BY <2>1, <2>2, ZenonT(60) DEF Types, Scenario
<1>3. ASSUME last'.scenario = Scenario.id, last'.client = state.url, last'.token = state.token,
             state.url # None, state.token # None, last'.method \in selected
      PROVE  ManagementStaysInTheScenario'
  BY <1>1, <1>2, <1>3, Zenon DEF ManagementStaysInTheScenario, OwnInv
<1>4. ASSUME last' = last PROVE ManagementStaysInTheScenario'
  BY <1>1, <1>4, Zenon DEF ManagementStaysInTheScenario
<1>5. ASSUME NEW status, Tried(status) PROVE ManagementStaysInTheScenario'
  <2>1. Sent /\ pc = "step"
    BY <1>5, Zenon DEF Tried
  <2>2. CASE last'.method = "POST"
    BY <2>2, Zenon DEF ManagementStaysInTheScenario
  <2>3. CASE last'.method # "POST" /\ last' # last
    <3>1. /\ Now \in DOMAIN MethodOf /\ CanManage /\ last'.method = MethodOf[Now]
          /\ last'.scenario = Scenario.id /\ last'.client = state.url /\ last'.token = state.token
      BY <2>1, <2>3, Zenon DEF Sent
    <3>2. last'.method \in selected
      BY <2>1, <3>1, MethodSelected, ZenonT(60)
    <3> QED
      BY <1>3, <3>1, <3>2, ZenonT(60) DEF CanManage
  <2> QED
    BY <1>4, <2>2, <2>3, ZenonT(60)
<1>6. CASE Rests
  BY <1>4, <1>6, Zenon DEF Rests, server
<1>7. CASE Cleaned
  <2>1. CASE CanCleanUp
    <3>1. /\ last'.scenario = Scenario.id /\ last'.client = state.url /\ last'.token = state.token
          /\ last'.method = "DELETE"
      BY <1>7, <2>1, Zenon DEF Cleaned
    <3> QED
      BY <1>3, <2>1, <3>1, ZenonT(60) DEF CanCleanUp
  <2>2. CASE ~CanCleanUp
    BY <1>4, <1>7, <2>2, Zenon DEF Cleaned, server
  <2> QED
    BY <2>1, <2>2, Zenon
<1> QED
  BY <1>5, <1>6, <1>7, StateSteps, Zenon DEF StaleInv

LEMMA OwnInvHolds == Spec => [](RInv /\ StaleInv /\ OwnInv)
<1>1. Init => OwnInv
  <2>1. SUFFICES ASSUME Init PROVE OwnInv
    BY Zenon
  <2>2. state = FreshState
    BY <2>1, Zenon DEF Init
  <2>3. state.client = None /\ state.url = None /\ state.token = None
    BY <2>2, Zenon DEF FreshState
  <2> QED
    BY <2>3, Zenon DEF OwnInv
<1>2. RInv /\ StaleInv /\ OwnInv /\ [Next]_vars => OwnInv'
  BY OwnInvStep, Zenon DEF RInv
<1> QED
  BY <1>1, <1>2, StaleInvHolds, PTL DEF Spec

(***************************************************************************)
(* _management_request and _best_effort_cleanup only manage a client that  *)
(* the scenario itself registered, with its own token or an empty one and  *)
(* with a selected method.                                                 *)
(***************************************************************************)
THEOREM ManagementStaysInTheScenarioHolds == Spec => []ManagementStaysInTheScenario
<1>1. Init => GateInv /\ ManagementStaysInTheScenario
  <2>1. SUFFICES ASSUME Init PROVE GateInv /\ ManagementStaysInTheScenario
    BY Zenon
  <2>2. pc = "start" /\ last = NoRequest
    BY <2>1, Zenon DEF Init
  <2>3. last.method = None
    BY <2>2, Zenon DEF NoRequest
  <2> QED
    BY <2>2, <2>3, Zenon DEF GateInv, ManagementStaysInTheScenario
<1>2. RInv /\ StaleInv /\ OwnInv /\ GateInv /\ ManagementStaysInTheScenario /\ [Next]_vars
        => GateInv' /\ ManagementStaysInTheScenario'
  BY GateInvStep, ManagementStep, Zenon DEF RInv
<1> QED
  BY <1>1, <1>2, OwnInvHolds, PTL DEF Spec

-----------------------------------------------------------------------------
(* What is left on the server.                                             *)

LEMMA OneCase ==
    ASSUME Types, NEW i \in DOMAIN plan, NEW j \in DOMAIN plan[i].cases
    PROVE  /\ plan[i].cases[j].id # None /\ plan[i].cases[j].id # Empty
           /\ \A m \in DOMAIN plan : \A n \in DOMAIN plan[m].cases :
                 plan[m].cases[n].id = plan[i].cases[j].id => m = i /\ n = j
  BY PlanFacts, ZenonT(60)

LEMMA PassedReached ==
    ASSUME Types, RowsInPlan, NEW i \in DOMAIN plan, NEW j \in DOMAIN plan[i].cases, NEW k,
           Passed(plan[i].cases[j].id, k)
    PROVE  Reached(i, j, k)
<1>1. PICK row \in Range(results) : row.case = plan[i].cases[j].id /\ row.step = k
  BY Zenon DEF Passed
<1>2. PICK m \in DOMAIN plan : \E n \in DOMAIN plan[m].cases :
         plan[m].cases[n].id = row.case /\ Reached(m, n, row.step)
  BY Zenon DEF RowsInPlan
<1>3. PICK n \in DOMAIN plan[m].cases : plan[m].cases[n].id = row.case /\ Reached(m, n, row.step)
  BY <1>2, Zenon
<1>4. m = i /\ n = j
  <2>1. plan[m].cases[n].id = plan[i].cases[j].id
    BY <1>1, <1>3, Zenon
  <2> QED
    BY <2>1, OneCase, Zenon
<1> QED
  BY <1>1, <1>3, <1>4, Zenon

LEMMA RowsTried ==
    ASSUME Types, NEW status \in Statuses, CaseEnds(status) \/ (StepPasses /\ status = "passed"),
           NEW i \in DOMAIN plan, NEW c \in Range(plan[i].cases), NEW d, RowPassed(c, d)'
    PROVE  RowPassed(c, d) \/ (status = "passed" /\ i = at.scenario /\ c = Case /\ Now = d)
<1>1. PICK k \in DOMAIN c.steps : c.steps[k] = d /\ Passed(c.id, k)'
  BY Zenon DEF RowPassed
<1>2. Passed(c.id, k) \/ (c.id = Case.id /\ k = at.step /\ status = "passed")
  BY <1>1, PassedInEnd, Zenon
<1>3. CASE Passed(c.id, k)
  BY <1>1, <1>3, Zenon DEF RowPassed
<1>4. CASE c.id = Case.id /\ k = at.step /\ status = "passed"
  <2>1. PICK j \in DOMAIN plan[i].cases : c = plan[i].cases[j]
    BY Zenon DEF Range
  <2>2. PICK m \in DOMAIN plan : m = at.scenario
    BY Zenon DEF Types
  <2>3. PICK n \in DOMAIN plan[m].cases : n = at.case
    BY <2>2, Zenon DEF Types, Scenario
  <2>4. Case = plan[m].cases[n]
    BY <2>2, <2>3, ZenonT(60) DEF Case, Scenario
  <2>5. i = m /\ j = n
    <3>1. plan[m].cases[n].id = plan[i].cases[j].id
      BY <1>4, <2>1, <2>4, ZenonT(60)
    <3> QED
      BY <3>1, OneCase, Zenon
  <2> QED
    BY <1>1, <1>4, <2>1, <2>2, <2>4, <2>5, ZenonT(60) DEF Now
<1> QED
  BY <1>2, <1>3, <1>4, ZenonT(60)

LEMMA RowsElse ==
    ASSUME Stays \/ ScenarioEnds, NEW c, NEW d, RowPassed(c, d)'
    PROVE  RowPassed(c, d)
  BY PassedElse, Zenon DEF RowPassed

\* A scenario starts with no row of its own.
LEMMA NoRowsYet ==
    ASSUME Types, RowsInPlan, NEW i \in DOMAIN plan, i > at.scenario, NEW c \in Range(plan[i].cases), NEW d
    PROVE  ~RowPassed(c, d)
<1>1. SUFFICES ASSUME RowPassed(c, d) PROVE FALSE
  BY Zenon
<1>2. PICK j \in DOMAIN plan[i].cases : c = plan[i].cases[j]
  BY Zenon DEF Range
<1>3. PICK k \in DOMAIN c.steps : Passed(c.id, k)
  BY <1>1, Zenon DEF RowPassed
<1>4. Reached(i, j, k)
  BY <1>2, <1>3, PassedReached, ZenonT(60)
<1>5. i \in Nat /\ at.scenario \in Nat
  BY PlanFacts, Here, SMTT(60) DEF IsList
<1> QED
  BY <1>4, <1>5 DEF Reached, CaseOver

\* A registration that was parsed is the one the state has, a token that was
\* issued was not emptied, and a client that was deleted is not known.
CapturedInv == \A c \in Range(Scenario.cases) : RowPassed(c, "parse-registration-success") => state.url = c.id

IssuedInv ==
    \A c \in Range(Scenario.cases) : RowPassed(c, "request-client-credentials-token") => state.token \notin {None, Empty}

DeletedInv == state.deleted => state.url # None /\ state.url \notin live

LEMMA OwnId ==
    ASSUME Types, OwnInv, state.url # None
    PROVE  state.url # Empty
<1>1. PICK j \in DOMAIN Scenario.cases : Scenario.cases[j].id = state.url
  BY Zenon DEF OwnInv
<1>2. PICK i \in DOMAIN plan : Scenario = plan[i]
  BY Zenon DEF Types, Scenario
<1> QED
  BY <1>1, <1>2, OneCase, ZenonT(60)

LEMMA CaseIdHere ==
    ASSUME Types, NEW c \in Range(Scenario.cases)
    PROVE  c.id # None
<1>1. PICK j \in DOMAIN Scenario.cases : c = Scenario.cases[j]
  BY Zenon DEF Range
<1>2. PICK i \in DOMAIN plan : Scenario = plan[i]
  BY Zenon DEF Types, Scenario
<1> QED
  BY <1>1, <1>2, OneCase, ZenonT(60)

\* What the step that ends a scenario means for the next one.
LEMMA NextStarts ==
    ASSUME Types, RowsInPlan, plan' = plan, Cleaned, ScenarioEnds
    PROVE  \/ state' = state /\ Scenario' = Scenario /\ at' = at
           \/ /\ state' = FreshState
              /\ \A c \in Range(Scenario'.cases) : \A d : ~RowPassed(c, d)'
<1>1. CASE at.scenario < Len(plan)
  <2>0. state' = FreshState
    BY <1>1, Zenon DEF Cleaned
  <2>1. at'.scenario = at.scenario + 1
    BY <1>1, SMTT(60) DEF ScenarioEnds, GoOn
  <2>2. at.scenario + 1 \in DOMAIN plan /\ at.scenario + 1 > at.scenario
    BY <1>1, Here, PlanFacts, SMTT(60) DEF IsList
  <2>3. PICK i \in DOMAIN plan : i = at.scenario + 1
    BY <2>2, Zenon
  <2>4. Scenario' = plan[i] /\ i > at.scenario
    BY <2>1, <2>2, <2>3, ZenonT(60) DEF Scenario
  <2>5. \A c \in Range(plan[i].cases) : \A d : ~RowPassed(c, d)
    BY <2>4, NoRowsYet, Zenon
  <2> QED
    BY <2>0, <2>4, <2>5, RowsElse, ZenonT(60)
<1>2. CASE ~(at.scenario < Len(plan))
  BY <1>2, Zenon DEF Cleaned, ScenarioEnds, GoOn, Scenario
<1> QED
  BY <1>1, <1>2, Zenon

\* A step that is tried, for the rows of its scenario.
LEMMA TriedRows ==
    ASSUME Types, plan' = plan, NEW status \in {"passed", "failed"}, Tried(status)
    PROVE  /\ Scenario' = Scenario
           /\ \A c \in Range(Scenario.cases) : \A d :
                 RowPassed(c, d)' => RowPassed(c, d) \/ (status = "passed" /\ c = Case /\ Now = d)
<1>1. (StepPasses /\ status = "passed") \/ CaseEnds(status)
  BY Advances, Zenon DEF Tried
<1>2. Scenario' = Scenario
  BY <1>1, StaysInScenario, ZenonT(60) DEF Scenario, Statuses
<1>3. PICK i \in DOMAIN plan : Scenario = plan[i]
  BY Zenon DEF Types, Scenario
<1> QED
  BY <1>1, <1>2, <1>3, RowsTried, ZenonT(60) DEF Statuses

LEMMA RestsRows ==
    ASSUME Types, plan' = plan, Stays \/ CaseEnds("skipped")
    PROVE  /\ Scenario' = Scenario
           /\ \A c \in Range(Scenario.cases) : \A d : RowPassed(c, d)' => RowPassed(c, d)
<1>1. Scenario' = Scenario
  BY StaysInScenario, Zenon DEF Scenario, Statuses
<1>2. PICK i \in DOMAIN plan : Scenario = plan[i]
  BY Zenon DEF Types, Scenario
<1> QED
  BY <1>1, <1>2, RowsTried, RowsElse, ZenonT(60) DEF Statuses

LEMMA CapturedStep ==
    ASSUME Types, RowsInPlan, StaleInv, OwnInv, CapturedInv, [Next]_vars
    PROVE  CapturedInv'
<1>1. plan' = plan
  BY Kinds, Zenon
<1>2. ASSUME NEW status \in {"passed", "failed"}, Tried(status) PROVE CapturedInv'
  <2>1. pc = "step" /\ Captured(status)
    BY <1>2, Zenon DEF Tried
  <2>2. ASSUME NEW c \in Range(Scenario.cases), RowPassed(c, "parse-registration-success")'
        PROVE  state'.url = c.id
    <3>1. CASE RowPassed(c, "parse-registration-success")
      <4>1. state.url = c.id /\ c.id # None
        BY <3>1, CaseIdHere, Zenon DEF CapturedInv
      <4>2. Now # "parse-registration-success"
        BY <2>1, <4>1, FirstParse, ZenonT(60)
      <4> QED
        BY <2>1, <4>1, <4>2, ZenonT(60) DEF Captured
    <3>2. CASE status = "passed" /\ c = Case /\ Now = "parse-registration-success"
      BY <2>1, <3>2, CapturesOwn, ZenonT(60) DEF Captured
    <3> QED
      BY <1>1, <1>2, <2>2, <3>1, <3>2, TriedRows, ZenonT(60)
  <2>3. Scenario' = Scenario
    BY <1>1, <1>2, TriedRows, ZenonT(60)
  <2> QED
    BY <2>2, <2>3, Zenon DEF CapturedInv
<1>3. CASE Rests /\ (Stays \/ CaseEnds("skipped"))
  BY <1>1, <1>3, RestsRows, ZenonT(60) DEF Rests, CapturedInv
<1>4. CASE Cleaned /\ ScenarioEnds
  BY <1>1, <1>4, NextStarts, RowsElse, ZenonT(60) DEF CapturedInv
<1> QED
  BY <1>2, <1>3, <1>4, StateSteps, ZenonT(60) DEF StaleInv

\* A token is not emptied after it was issued.
LEMMA NotEmptied ==
    ASSUME Types, RowsInPlan, pc = "step", Now = "set-empty-bearer-token", NEW c \in Range(Scenario.cases)
    PROVE  ~RowPassed(c, "request-client-credentials-token")
<1>1. SUFFICES ASSUME RowPassed(c, "request-client-credentials-token") PROVE FALSE
  BY Zenon
<1>2. PICK i \in DOMAIN plan : i = at.scenario /\ Scenario = plan[i]
  BY Zenon DEF Types, Scenario
<1>3. PICK m \in DOMAIN plan[i].cases : c = plan[i].cases[m]
  BY <1>2, Zenon DEF Range
<1>4. PICK n \in DOMAIN c.steps : c.steps[n] = "request-client-credentials-token" /\ Passed(c.id, n)
  BY <1>1, Zenon DEF RowPassed
<1>5. Reached(i, m, n)
  BY <1>3, <1>4, PassedReached, ZenonT(60)
<1>6. at.case < m \/ (at.case = m /\ at.step < n)
  <2>1. PICK j \in DOMAIN Scenario.cases : j = at.case
    BY Zenon DEF Types
  <2>2. PICK k \in DOMAIN Scenario.cases[j].steps : k = at.step /\ Scenario.cases[j].steps[k] = "set-empty-bearer-token"
    BY <2>1, Zenon DEF Types, Case, Now
  <2>3. m \in DOMAIN Scenario.cases /\ n \in DOMAIN Scenario.cases[m].steps
        /\ Scenario.cases[m].steps[n] = "request-client-credentials-token"
    BY <1>2, <1>3, <1>4, ZenonT(60)
  <2>4. j < m \/ (j = m /\ k < n)
    BY <2>2, <2>3, SoundHere, ZenonT(60) DEF SoundScenario
  <2> QED
    BY <2>1, <2>2, <2>4, ZenonT(60)
<1>7. m \in Nat /\ n \in Nat
  BY <1>3, <1>4, PlanFacts, SMTT(60) DEF IsList
<1> QED
  BY <1>2, <1>5, <1>6, <1>7, Here, SMTT(60) DEF Reached, CaseOver, Over

LEMMA IssuedStep ==
    ASSUME Types, RowsInPlan, StaleInv, OwnInv, IssuedInv, [Next]_vars
    PROVE  IssuedInv'
<1>1. plan' = plan
  BY Kinds, Zenon
<1>2. ASSUME NEW status \in {"passed", "failed"}, Tried(status) PROVE IssuedInv'
  <2>1. pc = "step" /\ Issued(status)
    BY <1>2, Zenon DEF Tried
  <2>2. state.client # None => state.client \notin {None, Empty}
    BY OwnId, Zenon DEF OwnInv
  <2>3. ASSUME NEW c \in Range(Scenario.cases), RowPassed(c, "request-client-credentials-token")'
        PROVE  state'.token \notin {None, Empty}
    <3>1. CASE RowPassed(c, "request-client-credentials-token")
      <4>1. state.token \notin {None, Empty}
        BY <3>1, Zenon DEF IssuedInv
      <4>2. Now # "set-empty-bearer-token"
        BY <2>1, <3>1, NotEmptied, ZenonT(60)
      <4> QED
        BY <2>1, <2>2, <4>1, <4>2, ZenonT(60) DEF Issued
    <3>2. CASE status = "passed" /\ c = Case /\ Now = "request-client-credentials-token"
      BY <2>1, <2>2, <3>2, ZenonT(60) DEF Issued
    <3> QED
      BY <1>1, <1>2, <2>3, <3>1, <3>2, TriedRows, ZenonT(60)
  <2>4. Scenario' = Scenario
    BY <1>1, <1>2, TriedRows, Zenon
  <2> QED
    BY <2>3, <2>4, Zenon DEF IssuedInv
<1>3. CASE Rests /\ (Stays \/ CaseEnds("skipped"))
  BY <1>1, <1>3, RestsRows, ZenonT(60) DEF Rests, IssuedInv
<1>4. CASE Cleaned /\ ScenarioEnds
  BY <1>1, <1>4, NextStarts, RowsElse, ZenonT(60) DEF IssuedInv
<1> QED
  BY <1>2, <1>3, <1>4, StateSteps, Zenon DEF StaleInv

\* A client is not registered again once its registration was parsed.
LEMMA NotAgain ==
    ASSUME Types, OwnInv, pc = "step", Now = "post-registration", state.url # None
    PROVE  state.url # Case.id
<1>1. SUFFICES ASSUME state.url = Case.id PROVE FALSE
  BY Zenon
<1>2. PICK i \in DOMAIN plan : i = at.scenario /\ Scenario = plan[i]
  BY Zenon DEF Types, Scenario
<1>3. PICK j \in DOMAIN plan[i].cases : \E k \in DOMAIN plan[i].cases[j].steps :
         /\ plan[i].cases[j].steps[k] = "parse-registration-success"
         /\ plan[i].cases[j].id = state.url /\ Reached(i, j, k)
  BY <1>2, Zenon DEF OwnInv
<1>4. PICK k \in DOMAIN plan[i].cases[j].steps :
         /\ plan[i].cases[j].steps[k] = "parse-registration-success"
         /\ plan[i].cases[j].id = state.url /\ Reached(i, j, k)
  BY <1>3, Zenon
<1>5. PICK n \in DOMAIN plan[i].cases : n = at.case /\ Case = plan[i].cases[n]
  BY <1>2, Zenon DEF Types, Case
<1>6. j = n
  <2>1. plan[i].cases[j].id = plan[i].cases[n].id
    BY <1>1, <1>4, <1>5, ZenonT(60)
  <2> QED
    BY <2>1, OneCase, ZenonT(60)
<1>7. at.step < k
  BY <1>4, <1>5, <1>6, SoundHere, ZenonT(60) DEF SoundCase, Types, Now
<1>8. k \in Nat
  BY <1>4, PlanFacts, SMTT(60) DEF IsList
<1> QED
  BY <1>2, <1>4, <1>5, <1>6, <1>7, <1>8, Here, SMTT(60) DEF Reached, CaseOver, Over

LEMMA DeletedStep ==
    ASSUME Types, StaleInv, OwnInv, DeletedInv, [Next]_vars
    PROVE  DeletedInv'
<1>1. ASSUME NEW status \in {"passed", "failed"}, Tried(status) PROVE DeletedInv'
  <2>1. pc = "step" /\ Captured(status) /\ Known
    BY <1>1, Zenon DEF Tried
  <2>2. state.url # None => state'.url = state.url
    BY <2>1, FirstParse, Zenon DEF Captured
  <2>3. ASSUME state.deleted PROVE state'.url # None /\ state'.url \notin live'
    <3>1. state.url # None /\ state.url \notin live
      BY <2>3, Zenon DEF DeletedInv
    <3>2. state.url \notin live'
      BY <2>1, <3>1, NotAgain, ZenonT(60) DEF Known
    <3> QED
      BY <2>2, <3>1, <3>2, ZenonT(60)
  <2> QED
    BY <2>1, <2>2, <2>3, ZenonT(60) DEF Known, DeletedInv
<1>2. CASE Rests
  BY <1>2, Zenon DEF Rests, server, DeletedInv
<1>3. CASE Cleaned
  <2>1. live' \subseteq live
    BY <1>3, Zenon DEF Cleaned, server
  <2>2. state' = state \/ ~state'.deleted
    BY <1>3, Zenon DEF Cleaned, FreshState
  <2> QED
    BY <2>1, <2>2, ZenonT(60) DEF DeletedInv
<1> QED
  BY <1>1, <1>2, <1>3, StateSteps, Zenon DEF StaleInv

\* Which scenarios are over.
LEMMA FinishedFacts ==
    ASSUME Types, NEW i \in FinishedScenarios
    PROVE  i \in DOMAIN plan /\ (pc # "done" => i # at.scenario)
<1>1. DOMAIN plan = 1..Len(plan) /\ Len(plan) \in Nat /\ at.scenario \in 1..Len(plan)
  BY PlanFacts, Here, Zenon DEF IsList
<1> QED
  BY <1>1, SMTT(60) DEF FinishedScenarios

LEMMA FinishedStep ==
    ASSUME Types, plan' = plan, NEW i \in FinishedScenarios',
           Stays \/ StepPasses \/ (\E status \in Statuses : CaseEnds(status)) \/ ScenarioEnds
    PROVE  i \in FinishedScenarios \/ (ScenarioEnds /\ i = at.scenario)
<1>1. DOMAIN plan = 1..Len(plan) /\ Len(plan) \in Nat /\ at.scenario \in 1..Len(plan)
  BY PlanFacts, Here, Zenon DEF IsList
<1>2. CASE ScenarioEnds
  <2>1. CASE at.scenario < Len(plan)
    <3>1. pc # "done" /\ pc' # "done" /\ at'.scenario = at.scenario + 1
      BY <1>2, <2>1, SMTT(60) DEF ScenarioEnds, GoOn
    <3>2. i \in 1..(at'.scenario - 1)
      BY <3>1, Zenon DEF FinishedScenarios
    <3>3. i \in 1..(at.scenario - 1) \/ i = at.scenario
      BY <1>1, <3>1, <3>2, SMTT(60)
    <3> QED
      BY <1>2, <3>1, <3>3, ZenonT(60) DEF FinishedScenarios
  <2>2. CASE ~(at.scenario < Len(plan))
    <3>1. pc = "cleanup" /\ pc' = "done"
      BY <1>2, <2>2, ZenonT(60) DEF ScenarioEnds, GoOn
    <3>2. i \in 1..Len(plan)
      BY <1>1, <3>1, ZenonT(60) DEF FinishedScenarios
    <3>3. i \in 1..(at.scenario - 1) \/ i = at.scenario
      BY <1>1, <2>2, <3>2, SMTT(60)
    <3> QED
      BY <1>2, <3>1, <3>3, ZenonT(60) DEF FinishedScenarios
  <2> QED
    BY <2>1, <2>2, Zenon
<1>3. CASE Stays \/ StepPasses \/ \E status \in Statuses : CaseEnds(status)
  <2>1. at'.scenario = at.scenario
    BY <1>3, StaysInScenario, ZenonT(60)
  <2>2. pc' = "done" <=> pc = "done"
    <3>1. CASE Stays
      BY <3>1, Zenon DEF Stays
    <3>2. CASE StepPasses
      BY <3>2, Zenon DEF StepPasses
    <3>3. ASSUME NEW status \in Statuses, CaseEnds(status) PROVE pc' = "done" <=> pc = "done"
      BY <3>3, Zenon DEF CaseEnds, LeaveCase
    <3> QED
      BY <1>3, <3>1, <3>2, <3>3, ZenonT(60)
  <2> QED
    BY <2>1, <2>2, ZenonT(60) DEF FinishedScenarios
<1> QED
  BY <1>2, <1>3, Zenon

\* What is left of one scenario.
Explained(i) ==
    \A c \in Range(plan[i].cases) :
        c.id \in live =>
            \/ "DELETE" \notin selected
            \/ c.id \in unconfirmed
            \/ ~RowPassed(c, "parse-registration-success")
            \/ ~\E other \in Range(plan[i].cases) : RowPassed(other, "request-client-credentials-token")

\* Nothing new is left of a scenario but the one that is run.
LEMMA ExplainedStays ==
    ASSUME Types, StaleInv, [Next]_vars, NEW i \in FinishedScenarios, Explained(i)
    PROVE  Explained(i)'
<1>1. plan' = plan /\ selected' = selected
  BY Kinds, Zenon
<1>2. i \in DOMAIN plan /\ (pc # "done" => i # at.scenario)
  BY FinishedFacts, Zenon
<1>3. ASSUME NEW c \in Range(plan[i].cases), NEW d, RowPassed(c, d)' PROVE RowPassed(c, d)
  <2>1. CASE Stays \/ ScenarioEnds
    BY <1>3, <2>1, RowsElse, ZenonT(60)
  <2>2. CASE StepPasses
    <3>1. pc # "done"
      BY <2>2, Zenon DEF StepPasses
    <3> QED
      BY <1>2, <1>3, <2>2, <3>1, RowsTried, ZenonT(60) DEF Statuses
  <2>3. ASSUME NEW status \in Statuses, CaseEnds(status) PROVE RowPassed(c, d)
    <3>1. pc # "done"
      BY <2>3, Zenon DEF CaseEnds
    <3> QED
      BY <1>2, <1>3, <2>3, <3>1, RowsTried, ZenonT(60)
  <2> QED
    BY <2>1, <2>2, <2>3, Kinds, ZenonT(60)
<1>4. ASSUME NEW c \in Range(plan[i].cases), c.id \in live' PROVE c.id \in live
  <2>1. ASSUME NEW status, Tried(status) PROVE c.id \in live
    <3>1. pc = "step" /\ Known
      BY <2>1, Zenon DEF Tried
    <3>2. PICK j \in DOMAIN plan[i].cases : c = plan[i].cases[j]
      BY <1>4, Zenon DEF Range
    <3>3. PICK m \in DOMAIN plan : m = at.scenario
      BY Zenon DEF Types
    <3>4. PICK n \in DOMAIN plan[m].cases : Case = plan[m].cases[n]
      BY <3>3, Zenon DEF Types, Case, Scenario
    <3>5. c.id # Case.id
      <4>1. i # m
        BY <1>2, <3>1, <3>3, ZenonT(60)
      <4>2. plan[m].cases[n].id # plan[i].cases[j].id
        BY <1>2, <4>1, OneCase, Zenon
      <4> QED
        BY <3>2, <3>4, <4>2, ZenonT(60)
    <3> QED
      BY <1>4, <3>1, <3>5, ZenonT(60) DEF Known
  <2>2. CASE Rests \/ Cleaned
    BY <1>4, <2>2, Zenon DEF Rests, Cleaned, server
  <2> QED
    BY <2>1, <2>2, StateSteps, ZenonT(60) DEF StaleInv
<1>5. unconfirmed \subseteq unconfirmed'
  <2>1. ASSUME NEW status, Tried(status) PROVE unconfirmed \subseteq unconfirmed'
    BY <2>1, Zenon DEF Tried, Known
  <2>2. CASE Rests \/ Cleaned
    BY <2>2, Zenon DEF Rests, Cleaned, server
  <2> QED
    BY <2>1, <2>2, StateSteps, Zenon DEF StaleInv
<1> QED
  BY <1>1, <1>3, <1>4, <1>5, ZenonT(60) DEF Explained

\* What a scenario that ends leaves.
LEMMA ExplainedAtTheEnd ==
    ASSUME Types, StaleInv, CapturedInv, IssuedInv, DeletedInv, [Next]_vars, ScenarioEnds, NEW i, i = at.scenario
    PROVE  Explained(i)'
<1>1. plan' = plan /\ selected' = selected /\ Scenario = plan[i]
  BY Kinds, Zenon DEF Scenario
<1>2. Cleaned
  <2>1. pc = "cleanup" /\ pc' # pc
    BY Zenon DEF ScenarioEnds, GoOn
  <2> QED
    BY <2>1, StateSteps, ZenonT(60) DEF StaleInv, Tried, Stays, CaseEnds
<1>3. SUFFICES ASSUME NEW c \in Range(plan[i].cases), c.id \in live', "DELETE" \in selected, c.id \notin unconfirmed',
                      RowPassed(c, "parse-registration-success")',
                      NEW other \in Range(plan[i].cases), RowPassed(other, "request-client-credentials-token")'
               PROVE  FALSE
  BY <1>1, Zenon DEF Explained
<1>4. state.url = c.id /\ state.token \notin {None, Empty}
  BY <1>1, <1>3, RowsElse, ZenonT(60) DEF CapturedInv, IssuedInv
<1>5. state.url # None /\ c.id \in live
  BY <1>1, <1>2, <1>3, <1>4, CaseIdHere, ZenonT(60) DEF Cleaned, server
<1>6. ~state.deleted
  BY <1>4, <1>5, Zenon DEF DeletedInv
<1>7. CanCleanUp
  BY <1>3, <1>4, <1>5, <1>6, ZenonT(60) DEF CanCleanUp
<1> QED
  BY <1>2, <1>3, <1>4, <1>7, ZenonT(60) DEF Cleaned

\* The invariant of what is left.
LeftInv == CapturedInv /\ IssuedInv /\ DeletedInv /\ LeftoversAreExplained

LEMMA LeftInvStep ==
    ASSUME RInv, StaleInv, OwnInv, LeftInv, [Next]_vars
    PROVE  LeftInv'
<1>1. Types /\ RowsInPlan /\ CapturedInv /\ IssuedInv /\ DeletedInv /\ \A i \in FinishedScenarios : Explained(i)
  BY Zenon DEF RInv, ReportInv, LeftInv, LeftoversAreExplained, Explained
<1>2. CapturedInv' /\ IssuedInv' /\ DeletedInv'
  BY <1>1, CapturedStep, IssuedStep, DeletedStep, ZenonT(60)
<1>3. ASSUME NEW i \in FinishedScenarios' PROVE Explained(i)'
  <2>1. i \in FinishedScenarios \/ (ScenarioEnds /\ i = at.scenario)
    BY <1>1, Kinds, FinishedStep, Zenon
  <2> QED
    BY <1>1, <2>1, ExplainedStays, ExplainedAtTheEnd, ZenonT(60)
<1>4. LeftoversAreExplained'
  BY <1>3, Zenon DEF LeftoversAreExplained, Explained
<1> QED
  BY <1>2, <1>4, Zenon DEF LeftInv

LEMMA LeftInvInit == Init => LeftInv
<1>1. SUFFICES ASSUME Init PROVE LeftInv
  BY Zenon
<1>2. results = <<>> /\ pc = "start" /\ at.scenario = 1 /\ live = {} /\ state = FreshState
  BY <1>1, Zenon DEF Init
<1>3. \A row : row \notin Range(results)
  BY <1>2 DEF Range
<1>4. \A c, d : ~RowPassed(c, d)
  BY <1>3, Zenon DEF RowPassed, Passed
<1>5. CapturedInv /\ IssuedInv
  BY <1>4, Zenon DEF CapturedInv, IssuedInv
<1>6. DeletedInv
  BY <1>2, Zenon DEF DeletedInv, FreshState
<1>7. LeftoversAreExplained
  BY <1>2, Zenon DEF LeftoversAreExplained
<1> QED
  BY <1>5, <1>6, <1>7, ZenonT(60) DEF LeftInv

(***************************************************************************)
(* _best_effort_cleanup: a client that the server still has when its       *)
(* scenario is over is one the adapter could not delete, whatever failed   *)
(* in the scenario and whenever it did.                                    *)
(***************************************************************************)
THEOREM LeftoversAreExplainedHolds == Spec => []LeftoversAreExplained
<1>1. RInv /\ StaleInv /\ OwnInv /\ LeftInv /\ [Next]_vars => LeftInv'
  BY LeftInvStep, Zenon
<1>2. LeftInv => LeftoversAreExplained
  BY Zenon DEF LeftInv
<1> QED
  BY <1>1, <1>2, LeftInvInit, OwnInvHolds, PTL DEF Spec
=============================================================================
