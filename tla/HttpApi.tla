------------------------------ MODULE HttpApi ------------------------------
(***************************************************************************)
(* The HTTP API server (server/http.go), the same handler fed by a cloud   *)
(* function (server/scf.go), and the chain a call goes through             *)
(* (modules/api/caller.go): rate limiter and long polling stand before the *)
(* action in QQ mode, and are not asked in Weixin mode.                    *)
(*                                                                         *)
(* A message abstracts what the handler looks at: method, content type,    *)
(* whether the body can be parsed, path, credentials in the header and in  *)
(* the query, and which source gives which spelling ("a" before "b", as in *)
(* "[user_id,id].0") of a parameter.                                       *)
(***************************************************************************)
EXTENDS Naturals, FiniteSets

CONSTANTS Requests,   \* connections, one request each
          Messages,   \* requests' contents
          Bucket,     \* size of the token bucket
          MaxRefills, \* bound: tokens added later
          None

\* What a server is started with, and what an action was given.
Settings == [weixin : BOOLEAN, secret : BOOLEAN, limited : BOOLEAN, spec : {11, 12, None}]
Executed == [parameter : ({"json", "form", "query"} \X {"a", "b"}) \cup {None}]

HttpAssumption ==
    /\ Bucket \in Nat /\ MaxRefills \in Nat
    /\ IsFiniteSet(Requests)
    /\ None \notin Settings \cup Executed

VARIABLES
    server,   \* None, or the server that runHTTP or runLambda started
    message,  \* each request's content
    stage,    \* of the handler: off, received, calling, waiting, replied
    status,   \* the status sent
    ran,      \* the source the parameter of the executed action came from
    tokens,   \* in the rate limiter's bucket
    refills   \* tokens added so far

callVars == <<message, stage, status, ran>>
vars == <<server, callVars, tokens, refills>>

-----------------------------------------------------------------------------
(* Starting the server.                                                    *)

\* Version 12 is ignored in Weixin mode.
Spec12(weixin, version) == ~weixin /\ version = 12

RunHTTP ==
    /\ server = None
    /\ \E weixin, secret, limited \in BOOLEAN, version \in {11, 12} :
          server' = [weixin |-> weixin, secret |-> secret, limited |-> limited,
                     spec |-> IF Spec12(weixin, version) THEN 12 ELSE 11]
    /\ UNCHANGED <<callVars, tokens, refills>>

\* runLambda leaves spec nil.
RunLambda ==
    /\ server = None
    /\ \E weixin, secret, limited \in BOOLEAN :
          server' = [weixin |-> weixin, secret |-> secret, limited |-> limited,
                     spec |-> None]
    /\ UNCHANGED <<callVars, tokens, refills>>

-----------------------------------------------------------------------------
(* ServeHTTP.                                                              *)

IsPost(m) == m.method = "POST"
MalformedForm(m) == IsPost(m) /\ m.ctype = "form" /\ ~m.wellFormed

\* Mutant: the query's token counts even when the header has a wrong one.
CheckAuthEither(m) ==
    IF ~server.secret \/ "right" \in {m.header, m.query} THEN 200
    ELSE IF m.header = "" /\ m.query = "" THEN 401 ELSE 403

\* The query is asked only without an Authorization header.
CheckAuth(m) ==
    LET auth == IF m.header = "" THEN m.query ELSE m.header IN
    IF ~server.secret \/ auth = "right" THEN 200 ELSE IF auth = "" THEN 401 ELSE 403

\* The status of the first early return, 200 when there is none.  A malformed
\* form is not one: its status is written and the handler goes on.
Refusal(m) ==
    CASE m.method \notin {"POST", "GET"}                          -> 404
      [] IsPost(m) /\ server.spec = 12 /\ m.ctype = "msgpack"     -> 415
      [] IsPost(m) /\ m.ctype = "json" /\ ~m.wellFormed           -> 400
      [] OTHER                                                    -> CheckAuth(m)

\* The status written first stays.
Written(m, code) == IF MalformedForm(m) THEN 400 ELSE code

\* The loop of the cloud function, which is the one without a spec, takes a
\* request when it has answered the one before.
Receive(r) ==
    /\ server # None
    /\ stage[r] = "off"
    /\ server.spec = None => \A q \in Requests : stage[q] \in {"off", "replied"}
    /\ \E m \in Messages : message' = [message EXCEPT ![r] = m]
    /\ stage' = [stage EXCEPT ![r] = "received"]
    /\ UNCHANGED <<server, status, ran, tokens, refills>>

Reply(r, code) ==
    /\ stage' = [stage EXCEPT ![r] = "replied"]
    /\ status' = [status EXCEPT ![r] = code]

\* Without a spec a POST panics before anything else is looked at.
PanicsAtOnce(m) == server.spec = None /\ IsPost(m)

Refuse(r) ==
    /\ stage[r] = "received"
    /\ ~PanicsAtOnce(message[r])
    /\ Refusal(message[r]) # 200
    /\ Reply(r, Written(message[r], Refusal(message[r])))
    /\ UNCHANGED <<server, message, ran, tokens, refills>>

Admitted(m) == ~PanicsAtOnce(m) /\ Refusal(m) = 200

\* The middlewares, in QQ mode only.
Admit(r) ==
    /\ stage[r] = "received"
    /\ Admitted(message[r])
    /\ stage' = [stage EXCEPT ![r] =
           IF server.limited /\ ~server.weixin THEN "waiting" ELSE "calling"]
    /\ UNCHANGED <<server, message, status, ran, tokens, refills>>

-----------------------------------------------------------------------------
(* Caller.Call.                                                            *)

\* Mutant: a request that finds the bucket empty goes on.
TakeTokenIfAny(r) ==
    /\ stage[r] = "waiting"
    /\ tokens' = IF tokens > 0 THEN tokens - 1 ELSE 0
    /\ stage' = [stage EXCEPT ![r] = "calling"]
    /\ UNCHANGED <<server, message, status, ran, refills>>

\* limiter.Wait gets a token.
TakeToken(r) ==
    /\ stage[r] = "waiting"
    /\ tokens > 0
    /\ tokens' = tokens - 1
    /\ stage' = [stage EXCEPT ![r] = "calling"]
    /\ UNCHANGED <<server, message, status, ran, refills>>

Refill ==
    /\ tokens < Bucket
    /\ refills < MaxRefills
    /\ tokens' = tokens + 1
    /\ refills' = refills + 1
    /\ UNCHANGED <<server, callVars>>

\* httpCtx.Get: the JSON body with either spelling, then for each spelling
\* the form and the query.
Has(m, source, key) ==
    /\ <<source, key>> \in m.given
    /\ source = "json" => IsPost(m) /\ m.ctype = "json"
    /\ source = "form" => IsPost(m) /\ m.ctype = "form"

Get(m, key) ==
    IF Has(m, "form", key) THEN <<"form", key>>
    ELSE IF Has(m, "query", key) THEN <<"query", key>> ELSE None

Parameter(m) ==
    IF Has(m, "json", "a") THEN <<"json", "a">>
    ELSE IF Has(m, "json", "b") THEN <<"json", "b">>
    ELSE IF Get(m, "a") # None THEN Get(m, "a") ELSE Get(m, "b")

\* Any other call finds that there is no spec behind the middlewares, where
\* the action is looked up; the cloud function's loop recovers and sends the
\* status and the body the writer has.
Panic(r) ==
    /\ \/ stage[r] = "received" /\ PanicsAtOnce(message[r])
       \/ stage[r] = "calling" /\ server.spec = None
    /\ Reply(r, 200)
    /\ UNCHANGED <<server, message, ran, tokens, refills>>

\* The action runs and its answer is sent.
Run(r) ==
    /\ stage[r] = "calling"
    /\ server.spec # None
    /\ ran' = [ran EXCEPT ![r] = [parameter |-> Parameter(message[r])]]
    /\ Reply(r, Written(message[r], 200))
    /\ UNCHANGED <<server, message, tokens, refills>>

-----------------------------------------------------------------------------
Init ==
    /\ server = None
    /\ message = [r \in Requests |-> None]
    /\ stage = [r \in Requests |-> "off"]
    /\ status = [r \in Requests |-> 0]
    /\ ran = [r \in Requests |-> None]
    /\ tokens = Bucket
    /\ refills = 0

Next ==
    \/ RunHTTP \/ RunLambda \/ Refill
    \/ \E r \in Requests :
          Receive(r) \/ Panic(r) \/ Refuse(r) \/ Admit(r) \/ TakeToken(r) \/ Run(r)

Spec == Init /\ [][Next]_vars

-----------------------------------------------------------------------------
(* Properties.                                                             *)

Ran == {r \in Requests : ran[r] # None}

\* What the limiter has let through: what is called, and what was answered
\* without being refused, whether an action ran or the call panicked.
Through ==
    {r \in Requests :
        \/ stage[r] = "calling"
        \/ stage[r] = "replied" /\ Admitted(message[r])}

\* An action runs only for a request whose credentials, header first, match
\* the configured ones, and never in the cloud function, whose calls panic; a
\* status other than 200 means that none ran, the malformed form excepted; in
\* QQ mode a configured limit holds for all requests together: each that was
\* let through has cost a token, the cloud function's panicked calls too, and
\* refused ones and POSTs that panic have cost nothing.
OnlyAdmittedCallsRun ==
    /\ \A r \in Ran :
          /\ server.secret =>
                \/ message[r].header = "right"
                \/ message[r].header = "" /\ message[r].query = "right"
          /\ server.spec # None
          /\ status[r] = 200 \/ MalformedForm(message[r])
          /\ message[r].method \in {"POST", "GET"}
    /\ server # None /\ server.limited /\ ~server.weixin =>
          Cardinality(Through) + tokens = Bucket + refills
=============================================================================
