---------------------------- MODULE LambdaInvoker ----------------------------
(***************************************************************************)
(* One function's invocations: LambdaInvoker.invoke_function in             *)
(* services/gateway/services/lambda_invoker.py, which takes a worker from   *)
(* the pool (ContainerPool), posts to it through the function's circuit     *)
(* breaker (CircuitBreaker) and gives the worker back or evicts it.         *)
(*                                                                          *)
(* The task suspends inside the pool's acquire() and in the HTTP post, and  *)
(* nowhere else: from acquire()'s return to the post, and from the post's   *)
(* end to the return of invoke_function, no await gives way (with pausing   *)
(* off, its default).  So a worker that comes from the pool and a circuit   *)
(* that refuses the call make one step, release included.                   *)
(*                                                                          *)
(* The function runs in its container until it is done, whether or not the  *)
(* gateway still waits: leftover holds the containers that still execute an *)
(* invocation whose request has ended.                                      *)
(***************************************************************************)
EXTENDS ContainerPool

CONSTANTS FailureThreshold, RecoveryTimeout

VARIABLES state, failures, sinceFailure, call,  \* the function's breaker
          leftover                              \* containers at work for nobody

breakerVars == <<state, failures, sinceFailure, call>>
invokerVars == <<vars, breakerVars, leftover>>

Breaker == INSTANCE CircuitBreaker WITH Calls <- Requests

InvokerInit == Init /\ Breaker!Init /\ leftover = {}

----------------------------------------------------------------------------
(* backend.acquire_worker() and breaker.call() up to the post *)

\* Reserving, sleeping, giving up and failing to provision: no worker yet.  The
\* error leaves invoke_function as a LambdaExecutionError.
Acquiring(r) == /\ Reserve(r) \/ Wait(r) \/ GiveUp(r) \/ ProvisionFail(r)
                /\ UNCHANGED <<breakerVars, leftover>>

\* The pool has a worker for r and the circuit lets the call through.
Post(r) == /\ \/ TakeIdle(r)
              \/ \E w \in Workers \ leftover : ProvisionOk(r, w)
           /\ Breaker!Start(r)
           /\ UNCHANGED leftover

RefusePoolWorkerKeepingIt(r) ==
  /\ Breaker!Blocked
  /\ TakeIdle(r)
  /\ UNCHANGED <<breakerVars, leftover>>

\* The circuit is open: CircuitBreakerOpenError, and the finally block releases
\* the worker that was just taken out of the deque ...
RefusePoolWorker(r) ==
  /\ Breaker!Blocked
  /\ AtLoopHead(r)
  /\ Idle # {}
  /\ pc' = NotifyAll([pc EXCEPT ![r] = "out"])
  /\ UNCHANGED <<phase, idleWorkers, allWorkers, provisioningCount, lease,
                 breakerVars, leftover>>

\* ... or the one that has been provisioned for the call.
RefuseNewWorker(r, w) ==
  /\ Breaker!Blocked
  /\ pc[r] = "provisioning"
  /\ w \notin allWorkers \cup Leased \cup leftover
  /\ allWorkers' = allWorkers \cup {w}
  /\ idleWorkers' = [idleWorkers EXCEPT ![w] = @ + 1]
  /\ provisioningCount' = provisioningCount - 1
  /\ pc' = NotifyAll([pc EXCEPT ![r] = "out"])
  /\ UNCHANGED <<phase, lease, breakerVars, leftover>>

----------------------------------------------------------------------------
(* The post ends *)

Succeed(r) == Breaker!Succeed(r) /\ Release(r) /\ UNCHANGED leftover

\* Status 500 and above, X-Amz-Function-Error, an error document, or the
\* connection broke: the worker goes back to the pool.
Failed(r) == Breaker!Fail(r) /\ Release(r) /\ UNCHANGED leftover

\* The HTTP time-out is a RequestError as well.
TimeoutLosingWorker(r) ==
  /\ Breaker!Fail(r)
  /\ leftover' = leftover \cup {lease[r]}
  /\ UNCHANGED vars

Timeout(r) == /\ Breaker!Fail(r)
              /\ Release(r)
              /\ leftover' = leftover \cup {lease[r]}

ConnectErrorReleasingToo(r) ==
  /\ Breaker!Fail(r)
  /\ pc[r] = "leased"
  /\ allWorkers' = allWorkers \ {lease[r]}
  /\ idleWorkers' = [idleWorkers EXCEPT ![lease[r]] = 1]
  /\ pc' = NotifyAll([pc EXCEPT ![r] = "out"])
  /\ lease' = [lease EXCEPT ![r] = NoWorker]
  /\ UNCHANGED <<phase, provisioningCount, leftover>>

\* httpx.ConnectError: the worker is dead and evicted; worker = None keeps the
\* finally block from releasing it.
ConnectError(r) == Breaker!Fail(r) /\ Evict(r) /\ UNCHANGED leftover

\* The request's task is cancelled in the post.
Cancelled(r) == /\ Breaker!Cancel(r)
                /\ Release(r)
                /\ leftover' = leftover \cup {lease[r]}

----------------------------------------------------------------------------
(* The rest of the system *)

Pool == /\ \/ \E w \in Workers : Adopt(w)
           \/ StartServing
           \/ \E expired \in SUBSET Idle : Prune(expired)
           \/ Drain
        /\ UNCHANGED <<breakerVars, leftover>>

Tick == Breaker!Tick /\ UNCHANGED <<vars, leftover>>

\* The function returns in a container that nobody listens to any more.
LeftoverEnds(w) == /\ w \in leftover
                   /\ leftover' = leftover \ {w}
                   /\ UNCHANGED <<vars, breakerVars>>

Halted == Closed /\ UNCHANGED <<breakerVars, leftover>>

PostEnds(r) == Succeed(r) \/ Failed(r) \/ Timeout(r) \/ ConnectError(r) \/ Cancelled(r)

Provisioned(r) == \/ Post(r)
                  \/ \E w \in Workers : RefuseNewWorker(r, w)
                  \/ Acquiring(r)

InvokerNext ==
  \/ \E r \in Requests : \/ Provisioned(r)
                         \/ RefusePoolWorker(r)
                         \/ PostEnds(r)
  \/ Pool
  \/ Tick
  \/ \E w \in Workers : LeftoverEnds(w)
  \/ Halted

InvokerSpec == InvokerInit /\ [][InvokerNext]_invokerVars

----------------------------------------------------------------------------
(* Properties *)

\* "Always return to pool": a worker is out exactly while a call is in progress
\* with it, so no path through the except clauses, the refusing circuit or a
\* cancellation keeps a worker or gives back what another request holds.
LeaseBacksCall == \A r \in Requests : pc[r] = "leased" <=> call[r] = "running"

\* Every request ends: the pool, the breaker and the post cannot keep it for ever.
RequestEnds == \A r \in Requests : pc[r] # "out" ~> pc[r] = "out"

\* docs/container-management.md:119 says of an IDLE container that it waits for a
\* request.  After a time-out or a cancellation the container is offered while
\* its previous invocation is still running.
IdleWorkersWait == Idle \cap leftover = {}
=============================================================================
