-------------------------- MODULE GatewayApiProofs --------------------------
(***************************************************************************)
(* Every path through invoke_function gives back exactly what it took, and *)
(* the endpoints call it as it is meant to be called, for every number of  *)
(* requests, capacity, threshold, routing table and set of functions.      *)
(*                                                                         *)
(* LambdaInvoker first.  Most of its steps are steps of the pool, so the   *)
(* pool's invariant carries over.  Two are not: an open circuit takes a    *)
(* worker and releases it within one step.  Their effect on the pool is    *)
(* argued here.  Then GatewayApi, whose steps are steps of LambdaInvoker.  *)
(***************************************************************************)
EXTENDS GatewayApi, ContainerPoolProofs

CallTyped == call \in [Requests -> {"idle", "running", "rejected"}]

InvokerInv == PoolInv /\ CallTyped /\ LeaseBacksCall

----------------------------------------------------------------------------
(* The refusing circuit *)

\* The worker of a refused request is back in the deque at once.
LEMMA RefusePoolWorkerPreserves ==
  ASSUME PoolInv, NEW r \in Requests, RefusePoolWorker(r)
  PROVE  PoolInv'
<1>1. /\ pc \in [Requests -> Locations] /\ pc[r] \in {"out", "woken"}
      /\ pc' = NotifyAll([pc EXCEPT ![r] = "out"])
  BY DEF PoolInv, TypeOK, RefusePoolWorker, AtLoopHead
<1>2. /\ pc' \in [Requests -> Locations]
      /\ \A q \in Requests : /\ pc'[q] # "waiting"
                             /\ pc'[q] = "leased" <=> pc[q] = "leased"
                             /\ pc'[q] = "provisioning" <=> pc[q] = "provisioning"
  BY <1>1 DEF NotifyAll, Locations
<1> USE DEF PoolInv, TypeOK, RefusePoolWorker
<1>3. TypeOK'
  BY <1>2
<1>4. Idle' = Idle /\ Leased' = Leased /\ InFlight' = InFlight
  BY <1>2 DEF Idle, Leased, InFlight
<1>5. LeaseMatchesLocation' /\ ExclusiveLease' /\ NoStrandedWaiter'
  BY <1>2, <1>4 DEF LeaseMatchesLocation, ExclusiveLease, NoStrandedWaiter
<1>6. LedgerExact' /\ CapacityBound'
  BY <1>4 DEF LedgerExact, CapacityBound
<1> QED
  BY <1>3, <1>5, <1>6

\* A worker provisioned for a refused request joins the pool as an idle one.
LEMMA RefuseNewWorkerPreserves ==
  ASSUME PoolInv, NEW r \in Requests, NEW w \in Workers, RefuseNewWorker(r, w)
  PROVE  PoolInv'
<1>1. /\ pc \in [Requests -> Locations] /\ pc[r] = "provisioning"
      /\ pc' = NotifyAll([pc EXCEPT ![r] = "out"])
  BY DEF PoolInv, TypeOK, RefuseNewWorker
<1>2. /\ pc' \in [Requests -> Locations]
      /\ \A q \in Requests : /\ pc'[q] # "waiting"
                             /\ pc'[q] = "leased" <=> pc[q] = "leased"
                             /\ pc'[q] = "provisioning" <=> pc[q] = "provisioning" /\ q # r
  BY <1>1 DEF NotifyAll, Locations
<1> USE DEF PoolInv, TypeOK, RefuseNewWorker
<1>3. r \in InFlight /\ InFlight' = InFlight \ {r}
  BY <1>1, <1>2 DEF InFlight
<1>4. Cardinality(InFlight') = Cardinality(InFlight) - 1 /\ Cardinality(InFlight') \in Nat
  <2>1. IsFiniteSet(InFlight')
    BY <1>3, InFlightFinite, CardinalityRemove
  <2> QED
    BY <1>3, <2>1, InFlightFinite, CardinalityRemove, FS_CardinalityType
<1>5. provisioningCount' = provisioningCount - 1 /\ provisioningCount' \in Nat
  BY <1>4, InFlightFinite DEF LedgerExact
<1>6. /\ IsFiniteSet(allWorkers') /\ Cardinality(allWorkers') = Cardinality(allWorkers) + 1
      /\ Cardinality(allWorkers) \in Nat
  BY CardinalityAdd
<1>7. TypeOK'
  <2>1. idleWorkers' \in [Workers -> Nat]
    OBVIOUS
  <2>2. UNCHANGED <<phase, lease>> /\ allWorkers' \in SUBSET Workers
    OBVIOUS
  <2> QED
    BY <1>2, <1>5, <1>6, <2>1, <2>2
<1>8. w \notin Idle /\ Idle' = Idle \cup {w} /\ idleWorkers[w] = 0
  BY DEF Idle, LedgerExact
<1>9. Leased' = Leased
  BY <1>2 DEF Leased
<1>10. LeaseMatchesLocation' /\ NoStrandedWaiter'
  BY <1>2 DEF LeaseMatchesLocation, NoStrandedWaiter
<1>11. ExclusiveLease'
  <2>1. \A p, q \in Requests :
          pc'[p] = "leased" /\ pc'[q] = "leased" /\ lease'[p] = lease'[q] => p = q
    BY <1>2 DEF ExclusiveLease
  <2>2. Idle' \cap Leased' = {}
    BY <1>8, <1>9 DEF ExclusiveLease
  <2>3. \A v \in Workers : idleWorkers'[v] <= 1
    BY <1>8 DEF ExclusiveLease
  <2> QED
    BY <2>1, <2>2, <2>3 DEF ExclusiveLease
<1>12. LedgerExact'
  BY <1>4, <1>5, <1>8, <1>9 DEF LedgerExact
<1>13. CapacityBound'
  BY <1>5, <1>6, CapacityAssumption DEF CapacityBound
<1> QED
  BY <1>7, <1>10, <1>11, <1>12, <1>13

----------------------------------------------------------------------------
(* Leases and calls *)

\* Steps of the pool that move no lease, while no call changes.
LEMMA NoLeaseMoved ==
  ASSUME InvokerInv, UNCHANGED call,
         \A r \in Requests : pc'[r] = "leased" <=> pc[r] = "leased"
  PROVE  CallTyped' /\ LeaseBacksCall'
  BY DEF InvokerInv, CallTyped, LeaseBacksCall

\* A request gets its worker and starts its call in the same step.
LEMMA PostPreserves ==
  ASSUME InvokerInv, NEW r \in Requests, Post(r)
  PROVE  CallTyped' /\ LeaseBacksCall'
<1>1. pc' = [pc EXCEPT ![r] = "leased"] /\ pc \in [Requests -> Locations]
  BY DEF InvokerInv, PoolInv, TypeOK, Post, TakeIdle, ProvisionOk
<1>2. call' = [call EXCEPT ![r] = "running"]
  BY DEF Post, Breaker!Start, Breaker!Admit, Breaker!Probe
<1> QED
  BY <1>1, <1>2 DEF InvokerInv, CallTyped, LeaseBacksCall

\* However a post ends, worker and call are given back together.
LEMMA PostEndsPreserves ==
  ASSUME InvokerInv, NEW r \in Requests, PostEnds(r)
  PROVE  CallTyped' /\ LeaseBacksCall'
<1>1. pc' = NotifyAll([pc EXCEPT ![r] = "out"]) /\ pc \in [Requests -> Locations]
  BY DEF InvokerInv, PoolInv, TypeOK, PostEnds, Succeed, Failed, Timeout, ConnectError,
         Cancelled, Release, Evict
<1>2. \A q \in Requests : pc'[q] = "leased" <=> pc[q] = "leased" /\ q # r
  BY <1>1 DEF NotifyAll, Locations
<1>3. call' = [call EXCEPT ![r] = "idle"]
  BY DEF PostEnds, Succeed, Failed, Timeout, ConnectError, Cancelled,
         Breaker!Succeed, Breaker!Fail, Breaker!Cancel
<1> QED
  BY <1>2, <1>3 DEF InvokerInv, CallTyped, LeaseBacksCall

LEMMA InvokerInitial == InvokerInit => InvokerInv
<1> SUFFICES ASSUME InvokerInit PROVE InvokerInv
  OBVIOUS
<1>1. PoolInv
  BY PoolInit DEF InvokerInit
<1> QED
  BY <1>1 DEF InvokerInit, Init, Breaker!Init, InvokerInv, CallTyped, LeaseBacksCall

\* One step per action.
LEMMA InvokerStep == InvokerInv /\ [InvokerNext]_invokerVars => InvokerInv'
<1> SUFFICES ASSUME InvokerInv, [InvokerNext]_invokerVars PROVE InvokerInv'
  OBVIOUS
<1>0. PoolInv /\ pc \in [Requests -> Locations]
  BY DEF InvokerInv, PoolInv, TypeOK
<1>1. ASSUME NEW r \in Requests, Acquiring(r) PROVE InvokerInv'
  <2>1. Next
    BY <1>1 DEF Acquiring, Next
  <2>2. UNCHANGED call
    BY <1>1 DEF Acquiring, breakerVars
  <2>3. \A q \in Requests : pc'[q] = "leased" <=> pc[q] = "leased"
    BY <1>0, <1>1 DEF Acquiring, Reserve, Wait, GiveUp, ProvisionFail, AtLoopHead,
                      NotifyAll, Locations
  <2> QED
    BY <1>0, <2>1, <2>2, <2>3, PoolStep, NoLeaseMoved DEF InvokerInv
<1>2. ASSUME NEW r \in Requests, Post(r) PROVE InvokerInv'
  <2>1. Next
    BY <1>2 DEF Post, Next
  <2> QED
    BY <1>0, <1>2, <2>1, PoolStep, PostPreserves DEF InvokerInv
<1>3. ASSUME NEW r \in Requests, RefusePoolWorker(r) PROVE InvokerInv'
  <2>1. UNCHANGED call
    BY <1>3 DEF RefusePoolWorker, breakerVars
  <2>2. \A q \in Requests : pc'[q] = "leased" <=> pc[q] = "leased"
    BY <1>0, <1>3 DEF RefusePoolWorker, AtLoopHead, NotifyAll, Locations
  <2> QED
    BY <1>0, <1>3, <2>1, <2>2, RefusePoolWorkerPreserves, NoLeaseMoved DEF InvokerInv
<1>4. ASSUME NEW r \in Requests, NEW w \in Workers, RefuseNewWorker(r, w) PROVE InvokerInv'
  <2>1. UNCHANGED call
    BY <1>4 DEF RefuseNewWorker, breakerVars
  <2>2. \A q \in Requests : pc'[q] = "leased" <=> pc[q] = "leased"
    BY <1>0, <1>4 DEF RefuseNewWorker, NotifyAll, Locations
  <2> QED
    BY <1>0, <1>4, <2>1, <2>2, RefuseNewWorkerPreserves, NoLeaseMoved DEF InvokerInv
<1>5. ASSUME NEW r \in Requests, PostEnds(r) PROVE InvokerInv'
  <2>1. Next
    BY <1>5 DEF PostEnds, Succeed, Failed, Timeout, ConnectError, Cancelled, Next
  <2> QED
    BY <1>0, <1>5, <2>1, PoolStep, PostEndsPreserves DEF InvokerInv
<1>6. ASSUME Pool PROVE InvokerInv'
  <2>1. Next
    BY <1>6 DEF Pool, Next
  <2>2. UNCHANGED call
    BY <1>6 DEF Pool, breakerVars
  <2>3. \A q \in Requests : pc'[q] = "leased" <=> pc[q] = "leased"
    BY <1>0, <1>6 DEF Pool, Adopt, StartServing, Prune, Drain, NotifyAll, Locations
  <2> QED
    BY <1>0, <2>1, <2>2, <2>3, PoolStep, NoLeaseMoved DEF InvokerInv
<1>7. ASSUME UNCHANGED <<vars, call>> PROVE InvokerInv'
  <2>1. UNCHANGED pc /\ UNCHANGED vars
    BY <1>7 DEF vars
  <2> QED
    BY <1>0, <1>7, <2>1, PoolStep, NoLeaseMoved DEF InvokerInv
<1>8. Tick \/ (\E w \in Workers : LeftoverEnds(w)) \/ Halted \/ UNCHANGED invokerVars
      => UNCHANGED <<vars, call>>
  BY DEF Tick, Breaker!Tick, LeftoverEnds, Halted, Closed, invokerVars, breakerVars
<1> QED
  BY <1>1, <1>2, <1>3, <1>4, <1>5, <1>6, <1>7, <1>8 DEF InvokerNext, Provisioned

----------------------------------------------------------------------------
(* Theorems *)

\* A worker is out exactly while a call is in progress with it.
THEOREM WorkersAreReturned == InvokerSpec => []LeaseBacksCall
<1>1. InvokerInv => LeaseBacksCall
  BY DEF InvokerInv
<1> QED
  BY InvokerInitial, InvokerStep, <1>1, PTL DEF InvokerSpec

\* The pool's ledger stays exact on every path of invoke_function.
THEOREM InvokerKeepsLedger == InvokerSpec => []LedgerExact
<1>1. InvokerInv => LedgerExact
  BY DEF InvokerInv, PoolInv
<1> QED
  BY InvokerInitial, InvokerStep, <1>1, PTL DEF InvokerSpec

----------------------------------------------------------------------------
(* The HTTP side *)

HttpDomains == /\ DOMAIN http = Requests /\ DOMAIN req = Requests /\ DOMAIN context = Requests
               /\ DOMAIN handler = Requests /\ DOMAIN sent = Requests /\ DOMAIN answer = Requests
               /\ DOMAIN shown = Requests

\* A request that has passed dispatch: it invokes, or its 202 is on the way.
Accepted(r) == Invokes(r) \/ (http[r] = "answering" /\ answer[r] = 202 /\ req[r].event)

\* q may invoke, having arrived when the token's state was t.
Allowed(q, t) == \/ q.endpoint = "invoke" /\ q.function \in Registered
                 \/ /\ q.endpoint = "route" /\ q.bearer = "issued"
                    /\ t = "live" /\ Matching(q) # {} /\ Target(q) \in Registered

\* What dispatch has established lasts until the invocation is made, and the
\* endpoint's task keeps its own copy of the context.
Admitted(r) == Accepted(r) => Allowed(req[r], shown[r]) /\ handler[r] = ContextOf(r, req[r])

\* The invoker works only for requests that invoke, and carries their trace.
Invoked(r) == pc[r] # "out" => /\ Invokes(r)
                               /\ sent[r].root = ParseRoot(Incoming(r, req[r]))
                               /\ req[r].endpoint = "route" => sent[r].id = r

SlotInv(r) == Admitted(r) /\ Invoked(r)

GatewayInv == InvokerInv /\ HttpDomains /\ \A r \in Requests : SlotInv(r)

\* Dispatch: what may be answered at once, and who gets past it.
LEMMA Dispatch ==
  ASSUME NEW q \in Arrivals, NEW status \in EarlyAnswers(q)
  PROVE  status # 202 /\ (status = 0 => Allowed(q, token))
<1>1. q.endpoint \in {"auth", "health", "metrics", "invoke", "route"}
  BY ArrivalsAssumption
<1>2. CASE q.endpoint = "auth"
  BY <1>2 DEF EarlyAnswers, AuthenticateUser
<1>3. CASE q.endpoint = "health"
  BY <1>3 DEF EarlyAnswers
<1>4. CASE q.endpoint = "metrics"
  BY <1>4 DEF EarlyAnswers, ListContainerMetrics
<1>5. CASE q.endpoint = "invoke"
  BY <1>5 DEF EarlyAnswers, InvokeLambdaApi, HasConfig, Allowed
<1>6. CASE q.endpoint = "route"
  BY <1>6 DEF EarlyAnswers, GatewayHandler, HasConfig, Authorized, Allowed
<1> QED
  BY <1>1, <1>2, <1>3, <1>4, <1>5, <1>6

\* A step of one request's invocation leaves the others in or out of the invoker.
LEMMA OthersStay ==
  ASSUME InvokerInv, NEW r \in Requests, Provisioned(r) \/ RefusePoolWorker(r) \/ PostEnds(r)
  PROVE  \A q \in Requests \ {r} : pc'[q] = "out" <=> pc[q] = "out"
<1>1. pc \in [Requests -> Locations]
  BY DEF InvokerInv, PoolInv, TypeOK
<1>2. \/ pc' = NotifyAll([pc EXCEPT ![r] = "out"])
      \/ \E l \in Locations : pc' = [pc EXCEPT ![r] = l]
  <2>1. CASE Acquiring(r)
    BY <2>1 DEF Acquiring, Reserve, Wait, GiveUp, ProvisionFail, Locations
  <2>2. CASE Post(r)
    BY <2>2 DEF Post, TakeIdle, ProvisionOk, Locations
  <2>3. CASE RefusePoolWorker(r) \/ \E w \in Workers : RefuseNewWorker(r, w)
    BY <2>3 DEF RefusePoolWorker, RefuseNewWorker
  <2>4. CASE PostEnds(r)
    BY <2>4 DEF PostEnds, Succeed, Failed, Timeout, ConnectError, Cancelled, Release, Evict
  <2> QED
    BY <2>1, <2>2, <2>3, <2>4 DEF Provisioned
<1> QED
  BY <1>1, <1>2 DEF NotifyAll, Locations

\* Whatever ends a post, or refuses it, the request leaves the invoker.
LEMMA LeavesInvoker ==
  ASSUME InvokerInv, NEW r \in Requests,
         \/ RefusePoolWorker(r) \/ PostEnds(r)
         \/ \E w \in Workers : RefuseNewWorker(r, w)
  PROVE  pc'[r] = "out"
<1>1. pc \in [Requests -> Locations]
  BY DEF InvokerInv, PoolInv, TypeOK
<1>2. pc' = NotifyAll([pc EXCEPT ![r] = "out"])
  BY DEF RefusePoolWorker, RefuseNewWorker, PostEnds, Succeed, Failed, Timeout,
         ConnectError, Cancelled, Release, Evict
<1> QED
  BY <1>1, <1>2 DEF NotifyAll, Locations

\* Nothing that a request does disturbs what is known of another one.
LEMMA SlotFrame ==
  ASSUME NEW q \in Requests, SlotInv(q), pc'[q] # "out" => pc[q] # "out",
         http'[q] = http[q], req'[q] = req[q], handler'[q] = handler[q],
         sent'[q] = sent[q], answer'[q] = answer[q], shown'[q] = shown[q]
  PROVE  SlotInv(q)'
<1>1. Admitted(q)'
  BY DEF SlotInv, Admitted, Accepted, Invokes, Allowed, Matching, Target
<1>2. Invoked(q)'
  BY DEF SlotInv, Invoked, Invokes
<1> QED
  BY <1>1, <1>2 DEF SlotInv

\* A slot that is given free.
LEMMA FinishedSlot ==
  ASSUME GatewayInv, InvokerInv', NEW r \in Requests, Finished(r), pc'[r] = "out",
         \A q \in Requests \ {r} : pc'[q] = "out" <=> pc[q] = "out"
  PROVE  GatewayInv'
<1>1. HttpDomains'
  BY DEF GatewayInv, HttpDomains, Finished
<1>2. SlotInv(r)'
  BY DEF GatewayInv, HttpDomains, Finished, SlotInv, Admitted, Accepted, Invokes, Invoked
<1>3. ASSUME NEW q \in Requests \ {r} PROVE SlotInv(q)'
  <2>1. /\ http'[q] = http[q] /\ req'[q] = req[q] /\ handler'[q] = handler[q]
        /\ sent'[q] = sent[q] /\ answer'[q] = answer[q] /\ shown'[q] = shown[q]
    BY DEF GatewayInv, HttpDomains, Finished
  <2> QED
    BY <2>1, SlotFrame DEF GatewayInv
<1> QED
  BY <1>1, <1>2, <1>3 DEF GatewayInv

\* The endpoint has its answer, or the background task ends.
LEMMA AnsweredSlot ==
  ASSUME GatewayInv, InvokerInv', NEW r \in Requests, pc'[r] = "out",
         \A q \in Requests \ {r} : pc'[q] = "out" <=> pc[q] = "out",
         NEW status, Answered(r, status)
  PROVE  GatewayInv'
<1>1. CASE http[r] = "background" /\ Finished(r)
  BY <1>1, FinishedSlot
<1>2. CASE /\ http[r] = "invoking"
           /\ http' = [http EXCEPT ![r] = "answering"]
           /\ answer' = [answer EXCEPT ![r] = status]
           /\ UNCHANGED <<req, context, handler, sent, token, shown>>
  <2>1. HttpDomains'
    BY <1>2 DEF GatewayInv, HttpDomains
  <2>2. http'[r] = "answering" /\ answer'[r] = status
    BY <1>2 DEF GatewayInv, HttpDomains
  <2>3. Allowed(req[r], shown[r]) /\ handler[r] = ContextOf(r, req[r])
    BY <1>2 DEF GatewayInv, SlotInv, Admitted, Accepted, Invokes
  <2>4. Admitted(r)'
    BY <1>2, <2>3 DEF Admitted, Allowed, Matching, Target
  <2>5. Invoked(r)'
    BY DEF Invoked
  <2>6. ASSUME NEW q \in Requests \ {r} PROVE SlotInv(q)'
    <3>1. /\ http'[q] = http[q] /\ req'[q] = req[q] /\ handler'[q] = handler[q]
          /\ sent'[q] = sent[q] /\ answer'[q] = answer[q] /\ shown'[q] = shown[q]
      BY <1>2 DEF GatewayInv, HttpDomains
    <3> QED
      BY <3>1, SlotFrame DEF GatewayInv
  <2> QED
    BY <2>1, <2>4, <2>5, <2>6 DEF GatewayInv, SlotInv
<1> QED
  BY <1>1, <1>2 DEF Answered

----------------------------------------------------------------------------
(* One lemma per action of the gateway *)

LEMMA GatewayInitial == GatewayInit => GatewayInv
<1> SUFFICES ASSUME GatewayInit PROVE GatewayInv
  OBVIOUS
<1>1. InvokerInv /\ \A r \in Requests : pc[r] = "out"
  BY InvokerInitial DEF GatewayInit, InvokerInit, Init
<1>2. HttpDomains
  BY DEF GatewayInit, HttpDomains
<1>3. ASSUME NEW r \in Requests PROVE SlotInv(r)
  BY <1>1 DEF GatewayInit, SlotInv, Admitted, Accepted, Invokes, Invoked
<1> QED
  BY <1>1, <1>2, <1>3 DEF GatewayInv

\* Every step of the gateway is one of the invoker, or leaves it alone.
LEMMA StepOfInvoker == [GatewayNext]_gatewayVars => [InvokerNext]_invokerVars
<1> SUFFICES ASSUME [GatewayNext]_gatewayVars PROVE [InvokerNext]_invokerVars
  OBVIOUS
<1>1. ASSUME NEW r \in Requests, NEW q \in Arrivals, Arrive(r, q) PROVE UNCHANGED invokerVars
  BY <1>1 DEF Arrive
<1>2. ASSUME NEW r \in Requests, InvocationStep(r) PROVE InvokerNext
  BY <1>2 DEF InvocationStep, InvokerNext
<1>3. ASSUME NEW r \in Requests, InvocationOk(r) PROVE InvokerNext
  BY <1>3 DEF InvocationOk, InvokerNext, PostEnds
<1>4. ASSUME NEW r \in Requests, InvocationFails(r) PROVE InvokerNext
  BY <1>4 DEF InvocationFails, Refused, InvokerNext, PostEnds, Provisioned
<1>5. ASSUME NEW r \in Requests, StartFails(r) PROVE InvokerNext
  BY <1>5 DEF StartFails, InvokerNext, Provisioned
<1>6. ASSUME NEW r \in Requests, InvocationCancelled(r) PROVE InvokerNext
  BY <1>6 DEF InvocationCancelled, InvokerNext, PostEnds, Provisioned
<1>7. ASSUME NEW r \in Requests, Respond(r) PROVE UNCHANGED invokerVars
  BY <1>7 DEF Respond
<1>8. TokenExpires => UNCHANGED invokerVars
  BY DEF TokenExpires
<1>9. Rest => InvokerNext
  BY DEF Rest, InvokerNext
<1>10. UNCHANGED gatewayVars => UNCHANGED invokerVars
  BY DEF gatewayVars
<1> QED
  BY <1>1, <1>2, <1>3, <1>4, <1>5, <1>6, <1>7, <1>8, <1>9, <1>10 DEF GatewayNext

\* A request that arrives in a free slot passes dispatch or is answered at once.
LEMMA ArrivePreserves ==
  ASSUME GatewayInv, InvokerInv', NEW r \in Requests, NEW q \in Arrivals, Arrive(r, q)
  PROVE  GatewayInv'
<1>1. pc[r] = "out" /\ UNCHANGED pc
  BY DEF GatewayInv, SlotInv, Invoked, Invokes, Arrive, invokerVars, vars
<1>2. PICK status \in EarlyAnswers(q) :
        LET first == IF status = 0 /\ q.event THEN 202 ELSE status
        IN /\ http' = [http EXCEPT ![r] = Stage(first)]
           /\ answer' = [answer EXCEPT ![r] = first]
           /\ token' = IF q.endpoint = "auth" /\ status = 200 THEN "live" ELSE token
  BY DEF Arrive
<1>3. Allowed(q, token) => shown'[r] = token \/ q.endpoint = "invoke"
  BY DEF GatewayInv, HttpDomains, Arrive, Allowed
<1>4. HttpDomains'
  BY <1>2 DEF GatewayInv, HttpDomains, Arrive
<1>5. /\ req'[r] = q /\ handler'[r] = ContextOf(r, q)
      /\ answer'[r] = IF status = 0 /\ q.event THEN 202 ELSE status
      /\ http'[r] = Stage(answer'[r])
  BY <1>2 DEF GatewayInv, HttpDomains, Arrive
<1>6. Admitted(r)'
  <2>1. SUFFICES ASSUME Accepted(r)' PROVE Allowed(q, shown[r])'
    BY <1>5 DEF Admitted
  <2>2. status = 0
    BY <1>5, <2>1, Dispatch DEF Accepted, Invokes, Stage
  <2> QED
    BY <2>2, <1>3, Dispatch DEF Allowed, Matching, Target
<1>7. Invoked(r)'
  BY <1>1 DEF Invoked
<1>8. ASSUME NEW p \in Requests \ {r} PROVE SlotInv(p)'
  <2>1. /\ http'[p] = http[p] /\ req'[p] = req[p] /\ handler'[p] = handler[p]
        /\ sent'[p] = sent[p] /\ answer'[p] = answer[p] /\ shown'[p] = shown[p]
    BY <1>2 DEF GatewayInv, HttpDomains, Arrive
  <2> QED
    BY <1>1, <2>1, SlotFrame DEF GatewayInv
<1> QED
  BY <1>4, <1>6, <1>7, <1>8 DEF GatewayInv, SlotInv

\* The invocation begins with the endpoint's own context, and goes on with it.
LEMMA InvocationStepPreserves ==
  ASSUME GatewayInv, InvokerInv', NEW r \in Requests, InvocationStep(r)
  PROVE  GatewayInv'
<1>1. /\ UNCHANGED <<http, req, context, handler, answer, token, shown>> /\ Invokes(r)
      /\ sent' = [sent EXCEPT ![r] = IF pc[r] = "out"
                                     THEN [root |-> handler[r].root, id |-> EventId(r)]
                                     ELSE sent[r]]
  BY DEF InvocationStep, Send
<1>2. HttpDomains'
  BY <1>1 DEF GatewayInv, HttpDomains
<1>3. \A q \in Requests \ {r} : pc'[q] = "out" <=> pc[q] = "out"
  BY OthersStay DEF GatewayInv, InvocationStep
<1>4. Allowed(req[r], shown[r]) /\ handler[r] = ContextOf(r, req[r])
  BY <1>1 DEF GatewayInv, SlotInv, Admitted, Accepted
<1>5. Admitted(r)'
  BY <1>1 DEF GatewayInv, SlotInv, Admitted, Accepted, Invokes, Allowed, Matching, Target
<1>6. Invoked(r)'
  <2>1. CASE pc[r] = "out"
    <3>1. sent'[r] = [root |-> handler[r].root, id |-> EventId(r)]
      BY <1>1, <2>1 DEF GatewayInv, HttpDomains
    <3>2. sent'[r].root = ParseRoot(Incoming(r, req[r]))
      BY <1>4, <3>1 DEF ContextOf
    <3>3. req[r].endpoint = "route" => sent'[r].id = r
      BY <1>4, <3>1, IdAssumption DEF ContextOf, EventId
    <3> QED
      BY <1>1, <3>2, <3>3 DEF Invoked, Invokes
  <2>2. CASE pc[r] # "out"
    BY <1>1, <2>2 DEF GatewayInv, HttpDomains, SlotInv, Invoked, Invokes
  <2> QED
    BY <2>1, <2>2
<1>7. ASSUME NEW q \in Requests \ {r} PROVE SlotInv(q)'
  <2>1. sent'[q] = sent[q]
    BY <1>1 DEF GatewayInv, HttpDomains
  <2> QED
    BY <1>1, <1>3, <2>1, SlotFrame DEF GatewayInv
<1> QED
  BY <1>2, <1>5, <1>6, <1>7 DEF GatewayInv, SlotInv

\* The function's own answer.
LEMMA InvocationOkPreserves ==
  ASSUME GatewayInv, InvokerInv', NEW r \in Requests, InvocationOk(r)
  PROVE  GatewayInv'
<1>1. PostEnds(r) /\ InvokerInv
  BY DEF InvocationOk, PostEnds, GatewayInv
<1>2. pc'[r] = "out" /\ \A q \in Requests \ {r} : pc'[q] = "out" <=> pc[q] = "out"
  BY <1>1, OthersStay, LeavesInvoker
<1>3. PICK reply \in Replies : Answered(r, StatusFor(req[r], reply))
  BY DEF InvocationOk
<1> QED
  BY <1>2, <1>3, AnsweredSlot

\* Whatever fails once there is a worker is answered with 502.
LEMMA InvocationFailsPreserves ==
  ASSUME GatewayInv, InvokerInv', NEW r \in Requests, InvocationFails(r)
  PROVE  GatewayInv'
<1>1. PostEnds(r) \/ RefusePoolWorker(r) \/ \E w \in Workers : RefuseNewWorker(r, w)
  BY DEF InvocationFails, Refused, PostEnds
<1>2. pc'[r] = "out" /\ \A q \in Requests \ {r} : pc'[q] = "out" <=> pc[q] = "out"
  BY <1>1, OthersStay, LeavesInvoker DEF GatewayInv, Provisioned
<1>3. Answered(r, 502)
  BY DEF InvocationFails
<1> QED
  BY <1>2, <1>3, AnsweredSlot

\* And so is a worker that does not come.
LEMMA StartFailsPreserves ==
  ASSUME GatewayInv, InvokerInv', NEW r \in Requests, StartFails(r)
  PROVE  GatewayInv'
<1>1. pc'[r] = "out" /\ \A q \in Requests \ {r} : pc'[q] = "out" <=> pc[q] = "out"
  BY OthersStay DEF GatewayInv, StartFails, Provisioned
<1>2. Answered(r, 502)
  BY DEF StartFails, StatusOfStartFailure
<1> QED
  BY <1>1, <1>2, AnsweredSlot

\* The client is gone.
LEMMA InvocationCancelledPreserves ==
  ASSUME GatewayInv, InvokerInv', NEW r \in Requests, InvocationCancelled(r)
  PROVE  GatewayInv'
<1>1. PostEnds(r) \/ (Provisioned(r) /\ pc'[r] = "out")
  BY DEF InvocationCancelled, PostEnds, Provisioned
<1>2. pc'[r] = "out" /\ \A q \in Requests \ {r} : pc'[q] = "out" <=> pc[q] = "out"
  BY <1>1, OthersStay, LeavesInvoker DEF GatewayInv
<1>3. Finished(r)
  BY DEF InvocationCancelled
<1> QED
  BY <1>2, <1>3, FinishedSlot

\* The response has begun; an accepted event becomes a background task.
LEMMA RespondPreserves ==
  ASSUME GatewayInv, InvokerInv', NEW r \in Requests, Respond(r)
  PROVE  GatewayInv'
<1>1. pc[r] = "out" /\ UNCHANGED pc
  BY DEF GatewayInv, SlotInv, Invoked, Invokes, Respond, invokerVars, vars
<1>2. CASE Finished(r)
  BY <1>1, <1>2, FinishedSlot
<1>3. CASE /\ answer[r] = 202 /\ req[r].event
           /\ http' = [http EXCEPT ![r] = "background"]
           /\ context' = [context EXCEPT ![r] = NoContext]
           /\ UNCHANGED <<req, handler, sent, answer, token, shown>>
  <2>1. HttpDomains'
    BY <1>3 DEF GatewayInv, HttpDomains
  <2>2. Allowed(req[r], shown[r]) /\ handler[r] = ContextOf(r, req[r])
    BY <1>3 DEF GatewayInv, SlotInv, Admitted, Accepted, Respond
  <2>3. SlotInv(r)'
    BY <1>1, <1>3, <2>2 DEF SlotInv, Admitted, Allowed, Matching, Target, Invoked
  <2>4. ASSUME NEW q \in Requests \ {r} PROVE SlotInv(q)'
    <3>1. http'[q] = http[q]
      BY <1>3 DEF GatewayInv, HttpDomains
    <3> QED
      BY <1>1, <1>3, <3>1, SlotFrame DEF GatewayInv
  <2> QED
    BY <2>1, <2>3, <2>4 DEF GatewayInv
<1> QED
  BY <1>2, <1>3 DEF Respond

\* The pool, the clock and what goes on in the containers concern no slot.
LEMMA RestPreserves ==
  ASSUME GatewayInv, InvokerInv', Rest \/ TokenExpires \/ UNCHANGED gatewayVars
  PROVE  GatewayInv'
<1>1. UNCHANGED <<http, req, context, handler, sent, answer, shown>>
  BY DEF Rest, TokenExpires, httpVars, gatewayVars
<1>2. \A q \in Requests : pc'[q] = "out" <=> pc[q] = "out"
  <2>1. pc \in [Requests -> Locations]
    BY DEF GatewayInv, InvokerInv, PoolInv, TypeOK
  <2>2. CASE Pool
    BY <2>1, <2>2 DEF Pool, Adopt, StartServing, Prune, Drain, NotifyAll, Locations
  <2>3. CASE UNCHANGED vars
    BY <2>3 DEF vars
  <2>4. Pool \/ UNCHANGED vars
    BY DEF Rest, TokenExpires, gatewayVars, invokerVars, Tick, LeftoverEnds, Halted, Closed
  <2> QED
    BY <2>2, <2>3, <2>4
<1>3. HttpDomains'
  BY <1>1 DEF GatewayInv, HttpDomains
<1>4. ASSUME NEW q \in Requests PROVE SlotInv(q)'
  BY <1>1, <1>2, SlotFrame DEF GatewayInv
<1> QED
  BY <1>3, <1>4 DEF GatewayInv

LEMMA GatewayStep == GatewayInv /\ [GatewayNext]_gatewayVars => GatewayInv'
<1> SUFFICES ASSUME GatewayInv, [GatewayNext]_gatewayVars PROVE GatewayInv'
  OBVIOUS
<1>1. InvokerInv'
  BY StepOfInvoker, InvokerStep DEF GatewayInv
<1> QED
  BY <1>1, ArrivePreserves, InvocationStepPreserves, InvocationOkPreserves,
     InvocationFailsPreserves, StartFailsPreserves, InvocationCancelledPreserves,
     RespondPreserves, RestPreserves DEF GatewayNext

----------------------------------------------------------------------------
(* Theorems about the gateway *)

\* No worker serves a request that dispatch would refuse, however long the
\* request has waited since, and whoever's token has expired meanwhile.
THEOREM NobodyInvokesUnasked == GatewaySpec => []InvokedOnlyIfAllowed
<1>1. GatewayInv => InvokedOnlyIfAllowed
  BY DEF GatewayInv, SlotInv, Invoked, Admitted, Accepted, Allowed, InvokedOnlyIfAllowed
<1> QED
  BY GatewayInitial, GatewayStep, <1>1, PTL DEF GatewaySpec

\* No function sees the trace of a request other than the one it works for.
THEOREM TraceIsOfTheRequest == GatewaySpec => []TraceFollowsRequest
<1>1. GatewayInv => TraceFollowsRequest
  BY DEF GatewayInv, SlotInv, Invoked, TraceFollowsRequest, Incoming, ParseRoot
<1> QED
  BY GatewayInitial, GatewayStep, <1>1, PTL DEF GatewaySpec

\* Under the whole gateway a worker is out exactly while a call is in progress.
THEOREM GatewayReturnsWorkers == GatewaySpec => []LeaseBacksCall
<1>1. GatewayInv => LeaseBacksCall
  BY DEF GatewayInv, InvokerInv
<1> QED
  BY GatewayInitial, GatewayStep, <1>1, PTL DEF GatewaySpec
=============================================================================
