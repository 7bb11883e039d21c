---------------------------- MODULE GatewayApi ----------------------------
(***************************************************************************)
(* The HTTP side of the gateway: middleware, dispatch and endpoints of     *)
(* services/gateway/main.py with api/deps.py, core/security.py,            *)
(* services/route_matcher.py, services/function_registry.py,               *)
(* core/utils.py and the trace context of services/common/core, on top of  *)
(* LambdaInvoker for the one function that has a pool.                     *)
(*                                                                         *)
(* A slot of Requests serves one HTTP request after another.  The          *)
(* middleware sets the trace context, lets the endpoint run in a task of   *)
(* its own, which has a copy of the context, and clears its context once   *)
(* the response has begun.  An Event invocation goes on after that, as a   *)
(* background task of the endpoint's task.                                 *)
(*                                                                         *)
(* A path is a sequence of segments, and so is a route's pattern, where a  *)
(* member of Params stands for any one segment.  A trace header is a       *)
(* record: its form and the id in it.                                      *)
(***************************************************************************)
EXTENDS LambdaInvoker, Sequences

CONSTANTS Function,    \* the function whose pool is modelled
          Registered,  \* names in functions.yml
          Routes,      \* routing.yml: a sequence of [path, method, function]
          Params,      \* pattern segments of the form {name}
          Arrivals,    \* the HTTP requests that may arrive
          Replies,     \* what the function may answer: [status, body, code]
          NoRequest

ASSUME RegistryAssumption == Function \in Registered
ASSUME NoRequestAssumption == NoRequest \notin Arrivals

ASSUME ArrivalsAssumption ==
  \A q \in Arrivals : q.endpoint \in {"auth", "health", "metrics", "invoke", "route"}
\* Ids are random: none of them is the word for having none.
ASSUME IdAssumption == "none" \notin Requests

VARIABLES http,     \* "free", "invoking", "answering", "background"
          req,      \* the request that the slot serves
          context,  \* contextvars of the middleware's task
          handler,  \* contextvars of the endpoint's task
          sent,     \* the context that the invocation carried to the function
          answer,   \* status code of the response
          token,    \* the bearer token: "none" issued, "live", "expired"
          shown     \* history: the token's state when a routed request arrived

httpVars == <<http, req, context, handler, sent, answer, token, shown>>
gatewayVars == <<invokerVars, httpVars>>

NoContext == [root |-> "none", id |-> "none"]

GatewayInit == /\ InvokerInit
               /\ http = [r \in Requests |-> "free"]
               /\ req = [r \in Requests |-> NoRequest]
               /\ context = [r \in Requests |-> NoContext]
               /\ handler = [r \in Requests |-> NoContext]
               /\ sent = [r \in Requests |-> NoContext]
               /\ answer = [r \in Requests |-> 0]
               /\ token = "none"
               /\ shown = [r \in Requests |-> "none"]

----------------------------------------------------------------------------
(* Trace ids *)

\* TraceId.parse(): Root=... or a bare id; of anything else no root is left.
ParseRoot(header) == IF header.form \in {"fields", "bare"} THEN header.id ELSE ""

\* The middleware: the client's header, or a new one.
Incoming(r, q) == IF q.trace.form = "missing" THEN [form |-> "fields", id |-> r]
                  ELSE q.trace

ContextOf(r, q) == [root |-> ParseRoot(Incoming(r, q)), id |-> r]

----------------------------------------------------------------------------
(* Dispatch *)

FitsPattern(pattern, path) ==
  /\ Len(pattern) = Len(path)
  /\ \A i \in DOMAIN pattern : pattern[i] \in Params \/ pattern[i] = path[i]

\* match_route(): the first route in the file that fits.
Matching(q) == {i \in DOMAIN Routes : /\ Routes[i].method = q.method
                                      /\ FitsPattern(Routes[i].path, q.path)}
Target(q) == Routes[CHOOSE i \in Matching(q) : \A j \in Matching(q) : i <= j].function

AuthorizedByAnyIssued(q) == q.bearer = "issued" /\ token # "none"

\* verify_authorization() and verify_token().
Authorized(q) == q.bearer = "issued" /\ token = "live"

\* get_function_config(): None for a name that functions.yml does not have.
HasConfig(function) == function \in Registered

\* What each endpoint may answer before it would invoke anything; 0: it invokes.
AuthenticateUser(q) == {IF q.credentials = "good" THEN 200 ELSE 401}

\* 503 when the agent lists containers and gives no metrics of any.
ListContainerMetrics(q) == IF Authorized(q) THEN {200, 503} ELSE {401}

InvokeLambdaApi(q) == {IF HasConfig(q.function) THEN 0 ELSE 404}

\* UserIdDep is resolved before LambdaTargetDep, and invoke_function() refuses a
\* name that is not registered.
GatewayHandler(q) == {IF ~Authorized(q) THEN 401
                      ELSE IF Matching(q) = {} THEN 404
                      ELSE IF HasConfig(Target(q)) THEN 0 ELSE 502}

EarlyAnswers(q) == CASE q.endpoint = "auth"    -> AuthenticateUser(q)
                     [] q.endpoint = "health"  -> {200}
                     [] q.endpoint = "metrics" -> ListContainerMetrics(q)
                     [] q.endpoint = "invoke"  -> InvokeLambdaApi(q)
                     [] q.endpoint = "route"   -> GatewayHandler(q)

\* An Event invocation is answered first and then run in the background.
Stage(status) == IF status = 0 THEN "invoking" ELSE "answering"

\* The middleware up to call_next(), and the endpoint up to its invocation.
Arrive(r, q) ==
  /\ phase = "serving"
  /\ http[r] = "free"
  /\ \E status \in EarlyAnswers(q) :
       LET first == IF status = 0 /\ q.event THEN 202 ELSE status
       IN /\ http' = [http EXCEPT ![r] = Stage(first)]
          /\ answer' = [answer EXCEPT ![r] = first]
          /\ token' = IF q.endpoint = "auth" /\ status = 200 THEN "live" ELSE token
  /\ req' = [req EXCEPT ![r] = q]
  /\ shown' = [shown EXCEPT ![r] = IF q.endpoint = "route" THEN token ELSE "none"]
  /\ context' = [context EXCEPT ![r] = ContextOf(r, q)]
  /\ handler' = [handler EXCEPT ![r] = context'[r]]
  /\ UNCHANGED <<invokerVars, sent>>

----------------------------------------------------------------------------
(* The invocation *)

\* Nothing is left of the request.
Finished(r) == /\ http' = [http EXCEPT ![r] = "free"]
               /\ req' = [req EXCEPT ![r] = NoRequest]
               /\ context' = [context EXCEPT ![r] = NoContext]
               /\ handler' = [handler EXCEPT ![r] = NoContext]
               /\ sent' = [sent EXCEPT ![r] = NoContext]
               /\ answer' = [answer EXCEPT ![r] = 0]
               /\ shown' = [shown EXCEPT ![r] = "none"]
               /\ UNCHANGED token

Invokes(r) == http[r] \in {"invoking", "background"}

\* build(): the event of a routed request carries the request id of the endpoint's
\* context; the invoke API passes the client's payload on.
EventId(r) == IF req[r].endpoint # "route" THEN "none"
              ELSE IF handler[r].id = "none" THEN "new" ELSE handler[r].id

SendSharing(r) ==
  sent' = [sent EXCEPT ![r] =
             IF pc[r] = "out" THEN [root |-> context[r].root, id |-> EventId(r)] ELSE @]

\* invoke_function() reads the trace id when it begins, in the endpoint's task.
Send(r) ==
  sent' = [sent EXCEPT ![r] =
             IF pc[r] = "out" THEN [root |-> handler[r].root, id |-> EventId(r)] ELSE @]

\* The invocation goes on: it reserves, waits or posts.
InvocationStep(r) == /\ Invokes(r)
                     /\ Provisioned(r)
                     /\ pc'[r] # "out"
                     /\ Send(r)
                     /\ UNCHANGED <<http, req, context, handler, answer, token, shown>>

AnsweredSyncOnly(r, status) ==
  /\ http[r] = "invoking"
  /\ http' = [http EXCEPT ![r] = "answering"]
  /\ answer' = [answer EXCEPT ![r] = status]
  /\ UNCHANGED <<req, context, handler, sent, token, shown>>

\* The endpoint gets a result or an exception; a background task ends silently.
Answered(r, status) ==
  \/ /\ http[r] = "invoking"
     /\ http' = [http EXCEPT ![r] = "answering"]
     /\ answer' = [answer EXCEPT ![r] = status]
     /\ UNCHANGED <<req, context, handler, sent, token, shown>>
  \/ /\ http[r] = "background"
     /\ Finished(r)

\* parse_lambda_response() for a routed request; the invoke API passes through.
StatusFor(q, reply) == IF q.endpoint = "route" /\ reply.body = "proxy" THEN reply.code
                       ELSE IF q.endpoint = "route" /\ reply.body = "json" THEN 200
                       ELSE reply.status

InvocationOk(r) == /\ Invokes(r)
                   /\ Succeed(r)
                   /\ \E reply \in Replies : Answered(r, StatusFor(req[r], reply))

\* ContainerStartError is raised inside the try whose `except Exception` wraps it
\* in LambdaExecutionError: the handlers for 503 and 429 are never reached.
StatusOfStartFailure == 502

StartFails(r) == /\ Invokes(r)
                 /\ pc[r] # "out"
                 /\ Acquiring(r) /\ pc'[r] = "out"
                 /\ Answered(r, StatusOfStartFailure)

\* The circuit is open: invoke_function raises CircuitBreakerOpenError's wrapper.
Refused(r) == RefusePoolWorker(r) \/ \E w \in Workers : RefuseNewWorker(r, w)

InvocationFails(r) == /\ Invokes(r)
                      /\ Failed(r) \/ Timeout(r) \/ ConnectError(r) \/ Refused(r)
                      /\ Answered(r, 502)

\* The client is gone and the task is cancelled, wherever it waits.
InvocationCancelled(r) ==
  /\ Invokes(r)
  /\ \/ Cancelled(r)
     \/ pc[r] # "out" /\ Acquiring(r) /\ pc'[r] = "out"
  /\ Finished(r)

\* The response begins: the middleware adds its headers and clears its context.
\* An accepted Event invocation is still to be made.
Respond(r) ==
  /\ http[r] = "answering"
  /\ IF answer[r] = 202 /\ req[r].event
     THEN /\ http' = [http EXCEPT ![r] = "background"]
          /\ context' = [context EXCEPT ![r] = NoContext]
          /\ UNCHANGED <<req, handler, sent, answer, token, shown>>
     ELSE Finished(r)
  /\ UNCHANGED invokerVars

----------------------------------------------------------------------------
TokenExpires == token = "live" /\ token' = "expired"
                /\ UNCHANGED <<invokerVars, http, req, context, handler, sent, answer, shown>>

\* The server stops once its last request, background task included, has ended.
Rest == /\ \/ Pool \/ Tick \/ Halted
           \/ \E w \in Workers : LeftoverEnds(w)
        /\ phase' = "closed" => \A r \in Requests : http[r] = "free"
        /\ UNCHANGED httpVars

GatewayNext ==
  \/ \E r \in Requests : \/ \E q \in Arrivals : Arrive(r, q)
                         \/ InvocationStep(r)
                         \/ InvocationOk(r) \/ InvocationFails(r) \/ StartFails(r)
                         \/ InvocationCancelled(r)
                         \/ Respond(r)
  \/ TokenExpires
  \/ Rest

GatewaySpec == GatewayInit /\ [][GatewayNext]_gatewayVars

\* A task that can run does, a post and a provision call end, and the timer of
\* acquire() ends every wait.
InvocationMoves(r) == \/ pc[r] \notin {"waiting", "woken"} /\ InvocationStep(r)
                      \/ InvocationOk(r) \/ InvocationFails(r) \/ StartFails(r)

GatewayFairness == \A r \in Requests : /\ WF_gatewayVars(InvocationMoves(r))
                                       /\ WF_gatewayVars(StartFails(r))
                                       /\ WF_gatewayVars(Respond(r))

GatewayLiveSpec == GatewaySpec /\ GatewayFairness

----------------------------------------------------------------------------
(* Properties *)

\* No slot is kept for ever: a request gets its response or its client leaves, and
\* after a 202 the background invocation ends, whether or not the circuit, the
\* pool's queue and failing containers let it reach the function; nobody hears of
\* its outcome.
SlotComesFree == \A r \in Requests : http[r] # "free" ~> http[r] = "free"

\* A worker serves a request only for a name that is registered, and for a routed
\* request only if the token it brought was issued and had not expired when the
\* request arrived, however long it has waited since, and a route names the function.
InvokedOnlyIfAllowed ==
  \A r \in Requests : pc[r] # "out" =>
    /\ Invokes(r)
    /\ \/ req[r].endpoint = "invoke" /\ req[r].function \in Registered
       \/ /\ req[r].endpoint = "route" /\ req[r].bearer = "issued"
          /\ shown[r] = "live" /\ Matching(req[r]) # {} /\ Target(req[r]) \in Registered

\* The function sees the trace root of the request that it works for, the client's
\* or a new one, and in a routed request's event its request id, also when the
\* invocation starts after the middleware has cleared its context, and whatever
\* other requests do meanwhile.  A header of another form has no root to follow.
TraceFollowsRequest ==
  \A r \in Requests : pc[r] # "out" =>
    /\ req[r].trace.form \in {"missing", "fields", "bare"} =>
         sent[r].root = Incoming(r, req[r]).id
    /\ req[r].endpoint = "route" => sent[r].id = r

\* docs/resilience.md:25 and :75 say that a call is answered with 503 while the
\* circuit is open, and :76 that one which exceeds its time-out is answered with
\* 504.  invoke_function turns both into LambdaExecutionError, which is a 502.
DocumentedStatus ==
  [][\A r \in Requests : http[r] = "invoking" /\ http'[r] = "answering" =>
       /\ Refused(r) => answer'[r] = 503
       /\ Timeout(r) => answer'[r] = 504]_gatewayVars
=============================================================================
