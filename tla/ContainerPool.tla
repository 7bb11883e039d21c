--------------------------- MODULE ContainerPool ---------------------------
(***************************************************************************)
(* One function's pool of warm containers: ContainerPool in                *)
(* services/gateway/services/container_pool.py.                            *)
(*                                                                         *)
(* The pool is shared by the asyncio tasks that serve requests and by the  *)
(* janitor.  No task suspends while it owns the condition's lock: the only *)
(* await inside a critical section is _cv.wait(), which gives the lock     *)
(* away.  So `async with self._cv` never blocks, every critical section is *)
(* one atomic step, and tasks interleave only at _cv.wait() and at the     *)
(* provision callback, which runs outside the lock.                        *)
(*                                                                         *)
(* The idle deque is a bag.  Which of several interchangeable warm workers *)
(* is handed out matters to no property, so its order is left out; how     *)
(* often a worker is queued does matter, so multiplicity is kept.          *)
(*                                                                         *)
(* A member of Requests is a task slot: it enters acquire(), and once it   *)
(* has left the pool the slot may serve another request.                   *)
(***************************************************************************)
EXTENDS Integers, FiniteSets

CONSTANTS Requests,     \* slots for concurrent requests of the function
          Workers,      \* container identities
          MaxCapacity,  \* max_capacity
          NoWorker      \* the lease of a request that has no worker

ASSUME RequestsAssumption == IsFiniteSet(Requests)
ASSUME CapacityAssumption == MaxCapacity \in Nat
ASSUME NoWorkerAssumption == NoWorker \notin Workers

VARIABLES phase,              \* "startup", "serving", "closed": lifespan()
          idleWorkers,        \* _idle_workers: how often each worker is queued
          allWorkers,         \* _all_workers: the ledger
          provisioningCount,  \* _provisioning_count
          pc,                 \* where each request's task stands
          lease               \* the worker acquire() returned to a request

vars == <<phase, idleWorkers, allWorkers, provisioningCount, pc, lease>>

\* "out": not inside the pool; "waiting": asleep in _cv.wait(); "woken":
\* notified, not yet running; "provisioning": awaiting provision_callback;
\* "leased": acquire() has returned a worker that was not given back yet.
Locations == {"out", "waiting", "woken", "provisioning", "leased"}

Idle == {w \in Workers : idleWorkers[w] > 0}
Leased == {lease[r] : r \in {q \in Requests : pc[q] = "leased"}}

InFlight == {r \in Requests : pc[r] = "provisioning"}

HasCapacityCountingOnlyLedger == Cardinality(allWorkers) < MaxCapacity

HasCapacity == Cardinality(allWorkers) + provisioningCount < MaxCapacity

\* _cv.notify_all() applied to the locations f.
NotifyAll(f) == [r \in Requests |-> IF f[r] = "waiting" THEN "woken" ELSE f[r]]

Init == /\ phase = "startup"
        /\ idleWorkers = [w \in Workers |-> 0]
        /\ allWorkers = {}
        /\ provisioningCount = 0
        /\ pc = [r \in Requests |-> "out"]
        /\ lease = [r \in Requests |-> NoWorker]

----------------------------------------------------------------------------
(* Startup: sync_with_manager() offers the containers that the agent lists.  *)
(* adopt() passes over a worker when the pool is full.                      *)

Adopt(w) ==
  /\ phase = "startup"
  /\ w \notin allWorkers
  /\ HasCapacity
  /\ allWorkers' = allWorkers \cup {w}
  /\ idleWorkers' = [idleWorkers EXCEPT ![w] = @ + 1]
  /\ pc' = NotifyAll(pc)
  /\ UNCHANGED <<phase, provisioningCount, lease>>

StartServing == /\ phase = "startup"
                /\ phase' = "serving"
                /\ UNCHANGED <<idleWorkers, allWorkers, provisioningCount, pc, lease>>

----------------------------------------------------------------------------
(* acquire(): one pass of the while loop, up to the next suspension. *)

AtLoopHead(r) == phase = "serving" /\ pc[r] \in {"out", "woken"}

TakeIdleWithoutPop(r) ==
  /\ AtLoopHead(r)
  /\ \E w \in Idle : lease' = [lease EXCEPT ![r] = w]
  /\ pc' = [pc EXCEPT ![r] = "leased"]
  /\ UNCHANGED <<phase, idleWorkers, allWorkers, provisioningCount>>

TakeIdle(r) ==
  /\ AtLoopHead(r)
  /\ \E w \in Idle : /\ idleWorkers' = [idleWorkers EXCEPT ![w] = @ - 1]
                     /\ lease' = [lease EXCEPT ![r] = w]
  /\ pc' = [pc EXCEPT ![r] = "leased"]
  /\ UNCHANGED <<phase, allWorkers, provisioningCount>>

Reserve(r) ==
  /\ AtLoopHead(r)
  /\ Idle = {}
  /\ HasCapacity
  /\ provisioningCount' = provisioningCount + 1
  /\ pc' = [pc EXCEPT ![r] = "provisioning"]
  /\ UNCHANGED <<phase, idleWorkers, allWorkers, lease>>

Wait(r) ==
  /\ AtLoopHead(r)
  /\ Idle = {}
  /\ ~HasCapacity
  /\ pc' = [pc EXCEPT ![r] = "waiting"]
  /\ UNCHANGED <<phase, idleWorkers, allWorkers, provisioningCount, lease>>

\* The wait ends without a worker: acquire_timeout has passed (the timer of
\* wait_for, or remaining <= 0 after a wake-up) or the task is cancelled.  Both
\* reach a task that was notified and has not run yet.
GiveUp(r) ==
  /\ pc[r] \in {"waiting", "woken"}
  /\ pc' = [pc EXCEPT ![r] = "out"]
  /\ UNCHANGED <<phase, idleWorkers, allWorkers, provisioningCount, lease>>

\* The callback returns: the agent always creates a container, so w is new.
ProvisionOk(r, w) ==
  /\ pc[r] = "provisioning"
  /\ w \notin allWorkers
  /\ w \notin Leased
  /\ allWorkers' = allWorkers \cup {w}
  /\ provisioningCount' = provisioningCount - 1
  /\ lease' = [lease EXCEPT ![r] = w]
  /\ pc' = [pc EXCEPT ![r] = "leased"]
  /\ UNCHANGED <<phase, idleWorkers>>

ProvisionFailKeepingSlot(r) ==
  /\ pc[r] = "provisioning"
  /\ pc' = NotifyAll([pc EXCEPT ![r] = "out"])
  /\ UNCHANGED <<phase, idleWorkers, allWorkers, provisioningCount, lease>>

\* `except BaseException`: the callback raised or the task was cancelled.
ProvisionFail(r) ==
  /\ pc[r] = "provisioning"
  /\ provisioningCount' = IF provisioningCount > 0 THEN provisioningCount - 1
                          ELSE provisioningCount
  /\ pc' = NotifyAll([pc EXCEPT ![r] = "out"])
  /\ UNCHANGED <<phase, idleWorkers, allWorkers, lease>>

----------------------------------------------------------------------------
(* release(), evict(), prune_idle_workers(), drain() *)

ReleaseWithoutNotify(r) ==
  /\ pc[r] = "leased"
  /\ idleWorkers' = [idleWorkers EXCEPT ![lease[r]] = @ + 1]
  /\ pc' = [pc EXCEPT ![r] = "out"]
  /\ lease' = [lease EXCEPT ![r] = NoWorker]
  /\ UNCHANGED <<phase, allWorkers, provisioningCount>>

Release(r) ==
  /\ pc[r] = "leased"
  /\ idleWorkers' = [idleWorkers EXCEPT ![lease[r]] = @ + 1]
  /\ pc' = NotifyAll([pc EXCEPT ![r] = "out"])
  /\ lease' = [lease EXCEPT ![r] = NoWorker]
  /\ UNCHANGED <<phase, allWorkers, provisioningCount>>

EvictWithoutNotify(r) ==
  /\ pc[r] = "leased"
  /\ allWorkers' = allWorkers \ {lease[r]}
  /\ idleWorkers' = [idleWorkers EXCEPT ![lease[r]] = 0]
  /\ pc' = [pc EXCEPT ![r] = "out"]
  /\ lease' = [lease EXCEPT ![r] = NoWorker]
  /\ UNCHANGED <<phase, provisioningCount>>

Evict(r) ==
  /\ pc[r] = "leased"
  /\ allWorkers' = allWorkers \ {lease[r]}
  /\ idleWorkers' = [idleWorkers EXCEPT ![lease[r]] = 0]
  /\ pc' = NotifyAll([pc EXCEPT ![r] = "out"])
  /\ lease' = [lease EXCEPT ![r] = NoWorker]
  /\ UNCHANGED <<phase, provisioningCount>>

\* Workers whose idle time exceeds IDLE_TIMEOUT leave the deque and the ledger.
\* last_used_at is a wall clock stamp, and adopted workers bring their own, so
\* any non-empty subset of the queued workers may have expired.
PruneForgettingLeased(expired) ==
  /\ phase = "serving"
  /\ expired # {}
  /\ allWorkers' = Idle \ expired
  /\ idleWorkers' = [w \in Workers |-> IF w \in expired THEN 0 ELSE idleWorkers[w]]
  /\ pc' = NotifyAll(pc)
  /\ UNCHANGED <<phase, provisioningCount, lease>>

Prune(expired) ==
  /\ phase = "serving"
  /\ expired # {}
  /\ allWorkers' = allWorkers \ expired
  /\ idleWorkers' = [w \in Workers |-> IF w \in expired THEN 0 ELSE idleWorkers[w]]
  /\ pc' = NotifyAll(pc)
  /\ UNCHANGED <<phase, provisioningCount, lease>>

DrainDuringRequests ==
  /\ phase = "serving"
  /\ phase' = "closed"
  /\ allWorkers' = {}
  /\ idleWorkers' = [w \in Workers |-> 0]
  /\ provisioningCount' = 0
  /\ pc' = NotifyAll(pc)
  /\ UNCHANGED lease

\* Called by shutdown_all() in lifespan() after the server's last request ended.
Drain ==
  /\ phase = "serving"
  /\ \A r \in Requests : pc[r] = "out"
  /\ phase' = "closed"
  /\ allWorkers' = {}
  /\ idleWorkers' = [w \in Workers |-> 0]
  /\ provisioningCount' = 0
  /\ pc' = NotifyAll(pc)
  /\ UNCHANGED lease

Closed == phase = "closed" /\ UNCHANGED vars

----------------------------------------------------------------------------
Next == \/ \E w \in Workers : Adopt(w)
        \/ StartServing
        \/ \E r \in Requests : \/ TakeIdle(r)
                               \/ Reserve(r)
                               \/ Wait(r)
                               \/ GiveUp(r)
                               \/ \E w \in Workers : ProvisionOk(r, w)
                               \/ ProvisionFail(r)
                               \/ Release(r)
                               \/ Evict(r)
        \/ \E expired \in SUBSET Idle : Prune(expired)
        \/ Drain
        \/ Closed

Spec == Init /\ [][Next]_vars

\* Liveness: what the code's timeouts give.  A caller holds a worker for at
\* most LAMBDA_INVOKE_TIMEOUT and then releases or evicts it in its finally
\* block, and a provision call ends.  The acquire timer is NOT assumed to fire.
EndLease(r) == Release(r) \/ Evict(r)
EndProvision(r) == ProvisionFail(r) \/ \E w \in Workers : ProvisionOk(r, w)

Fairness == \A r \in Requests : WF_vars(EndLease(r)) /\ WF_vars(EndProvision(r))

LiveSpec == Spec /\ Fairness

----------------------------------------------------------------------------
(* Properties *)

\* The variables of the pool have the shapes the code gives them.  That
\* _provisioning_count is never negative needs drain(), which sets it to zero,
\* to come after the last provision call has ended.
TypeOK == /\ phase \in {"startup", "serving", "closed"}
          /\ idleWorkers \in [Workers -> Nat]
          /\ allWorkers \in SUBSET Workers
          /\ IsFiniteSet(allWorkers)
          /\ provisioningCount \in Nat
          /\ pc \in [Requests -> Locations]
          /\ lease \in [Requests -> Workers \cup {NoWorker}]

\* Registered workers and provisions in flight together never exceed
\* max_capacity, whatever the interleaving of acquire, evict, prune and
\* failing provisions (acquire() reserves before it awaits the callback).
CapacityBound == Cardinality(allWorkers) + provisioningCount <= MaxCapacity

\* A worker serves one request at a time: no two requests hold it, a held one
\* is not offered in the idle deque, and it is queued at most once.
ExclusiveLease ==
  /\ \A r, q \in Requests :
       pc[r] = "leased" /\ pc[q] = "leased" /\ lease[r] = lease[q] => r = q
  /\ Idle \cap Leased = {}
  /\ \A w \in Workers : idleWorkers[w] <= 1

\* The ledger holds exactly the workers that are queued or leased and the
\* counter exactly the provisions in flight: no capacity leaks on any error
\* path, and a busy worker never becomes unknown to reconcile_orphans().
LedgerExact ==
  /\ allWorkers = Idle \cup Leased
  /\ provisioningCount = Cardinality(InFlight)

\* No lost wake-up: while a task sleeps in _cv.wait() there is neither an idle
\* worker nor room to provision one ("waiters not waking on release").
NoStrandedWaiter ==
  (\E r \in Requests : pc[r] = "waiting") => Idle = {} /\ ~HasCapacity

\* A sleeping task is always woken, even when its timer never fires, as long
\* as holders give their workers back and provision calls end.
WaiterWoken == \A r \in Requests : pc[r] = "waiting" ~> pc[r] # "waiting"

\* What the pool promises, see WorkerLease: the ledger is the membership.
Lease == INSTANCE WorkerLease WITH members <- allWorkers, holds <- lease
ImplementsWorkerLease == Lease!Spec
=============================================================================
