------------------------ MODULE ContainerPauseProofs ------------------------
(***************************************************************************)
(* Pausing for every number of requests, workers and capacity: no request  *)
(* gets a worker that the manager knows to be paused, none is served by a  *)
(* frozen container unless the outcome of a pause call is unknown, and the *)
(* ledger of the pool is exact but for the workers of cancelled resumes.   *)
(*                                                                         *)
(* The pool's part of the invariant is PoolCore(lost) of                   *)
(* ContainerPoolProofs, so the pool's own actions need no new argument.    *)
(* ResumeFail and ResumeCancelled do.  The manager's part says where a     *)
(* pause task, a listed and a frozen worker can be.                        *)
(***************************************************************************)
EXTENDS ContainerPause, ContainerPoolProofs

PauseTypes == /\ stage \in [Requests -> {"none", "cancelling", "resuming", "serving"}]
              /\ pauseTask \in [Workers -> {"none", "sleeping", "calling"}]
              /\ unsure \in [Workers -> {"no", "running", "over"}]
              /\ pausedIds \in SUBSET Workers /\ pruning \in SUBSET Workers
              /\ frozen \in SUBSET Workers /\ lost \in SUBSET Workers

\* A request is in acquire_worker()'s loop, or served, while the pool's lease lasts.
StageMatchesLease == \A r \in Requests : pc[r] = "leased" <=> stage[r] # "none"

\* A worker with a pause task is queued, or taken from the queue by a prune round
\* that has not come to it yet: nobody holds it.
TaskOnlyWhileIdle == \A w \in Workers : pauseTask[w] # "none" => w \in Idle \cup pruning

\* What a prune round has taken is no longer in the ledger.
PrunedAreOut == pruning \cap allWorkers = {}

\* The manager lists every frozen worker of the pool, or cannot know of it.
FrozenIsKnown == \A w \in frozen \cap allWorkers : w \in pausedIds \/ unsure[w] # "no"

ManagerPart == /\ PauseTypes /\ StageMatchesLease /\ TaskOnlyWhileIdle
               /\ PrunedAreOut /\ PausedAreOutOfUse /\ FrozenIsKnown

PauseInv == PoolCore(lost) /\ ManagerPart

----------------------------------------------------------------------------
(* The pool's part *)

\* The pool's actions preserve PoolCore(L) for every L, so for the lost workers too
\* as long as those stay the same.
LEMMA PoolOnlyKeepsCore ==
  ASSUME PoolCore(lost), lost' = lost,
         \/ \E r \in Requests : \/ TakeIdle(r) \/ Reserve(r) \/ Wait(r) \/ GiveUp(r)
                                 \/ ProvisionFail(r) \/ Release(r) \/ Evict(r)
                                 \/ \E w \in Workers : ProvisionOk(r, w)
         \/ \E expired \in SUBSET Idle : Prune(expired)
         \/ StartServing \/ UNCHANGED vars
  PROVE  PoolCore(lost)'
<1>1. PICK L : L = lost
  OBVIOUS
<1>2. PoolCore(L)
  BY <1>1
<1>3. PoolCore(L)'
  <2>1. CASE StartServing \/ UNCHANGED vars
    BY <1>2, <2>1, FramePreserves DEF StartServing, vars, PoolCore, TypeOK
  <2> QED
    BY <1>2, <2>1, TakeIdlePreserves, ReservePreserves, WaitPreserves, GiveUpPreserves,
       ProvisionOkPreserves, ProvisionFailPreserves, ReleasePreserves, EvictPreserves,
       PrunePreserves
<1> QED
  BY <1>1, <1>3 DEF PoolCore, Ledger

\* A request in the resume loop holds its worker, alone, and the ledger has it.
LEMMA HeldWhileResuming ==
  ASSUME PauseInv, NEW r \in Requests, stage[r] # "none"
  PROVE  /\ pc[r] = "leased" /\ lease[r] \in Workers /\ lease[r] \in Leased
         /\ lease[r] \in allWorkers /\ lease[r] \notin Idle \cup lost \cup pruning
         /\ pauseTask[lease[r]] = "none"
         /\ \A q \in Requests : pc[q] = "leased" /\ lease[q] = lease[r] => q = r
<1>1. pc[r] = "leased"
  BY DEF PauseInv, ManagerPart, StageMatchesLease
<1>2. lease[r] \in Workers /\ lease[r] \in Leased
  BY <1>1 DEF PauseInv, PoolCore, LeaseMatchesLocation, Leased
<1>3. lease[r] \in allWorkers /\ lease[r] \notin Idle \cup lost
  BY <1>2 DEF PauseInv, PoolCore, Ledger, ExclusiveLease
<1>4. lease[r] \notin pruning
  BY <1>3 DEF PauseInv, ManagerPart, PrunedAreOut
<1>5. pauseTask[lease[r]] = "none"
  BY <1>2, <1>3, <1>4 DEF PauseInv, ManagerPart, TaskOnlyWhileIdle
<1>6. \A q \in Requests : pc[q] = "leased" /\ lease[q] = lease[r] => q = r
  BY <1>1 DEF PauseInv, PoolCore, ExclusiveLease
<1> QED
  BY <1>1, <1>2, <1>3, <1>4, <1>5, <1>6

\* The cancelled request leaves its worker behind, counted and out of reach.
LEMMA ResumeCancelledKeepsCore ==
  ASSUME PauseInv, NEW r \in Requests, ResumeCancelled(r)
  PROVE  PoolCore(lost)'
<1> DEFINE w == lease[r]
<1>1. /\ pc[r] = "leased" /\ w \in Workers /\ w \in Leased /\ w \notin Idle
      /\ \A q \in Requests : pc[q] = "leased" /\ lease[q] = w => q = r
  BY HeldWhileResuming DEF ResumeCancelled
<1>2. /\ pc' = [pc EXCEPT ![r] = "out"] /\ lease' = [lease EXCEPT ![r] = NoWorker]
      /\ lost' = lost \cup {w}
      /\ UNCHANGED <<phase, idleWorkers, allWorkers, provisioningCount>>
  BY DEF ResumeCancelled
<1> HIDE DEF w
<1> USE DEF PauseInv, PoolCore
<1>3. TypeOK'
  BY <1>2 DEF TypeOK, Locations
<1>4. Idle' = Idle /\ InFlight' = InFlight /\ HasCapacity' = HasCapacity
  BY <1>1, <1>2 DEF Idle, InFlight, HasCapacity, TypeOK
<1>5. Leased' = Leased \ {w}
  BY <1>1, <1>2 DEF Leased, TypeOK, w
<1>6. LeaseMatchesLocation' /\ NoStrandedWaiter' /\ CapacityBound'
  BY <1>1, <1>2, <1>4 DEF LeaseMatchesLocation, NoStrandedWaiter, CapacityBound, TypeOK
<1>7. ExclusiveLease'
  BY <1>1, <1>2, <1>4, <1>5 DEF ExclusiveLease, TypeOK
<1>8. Ledger(lost)'
  BY <1>1, <1>2, <1>4, <1>5 DEF Ledger
<1> QED
  BY <1>3, <1>6, <1>7, <1>8

\* After a failed resume the loop takes another queued worker in the same step ...
LEMMA ResumeFailTakesIdle ==
  ASSUME PauseInv, NEW r \in Requests, stage[r] = "resuming", NEW v \in Idle,
         allWorkers' = allWorkers \ {lease[r]},
         idleWorkers' = [idleWorkers EXCEPT ![v] = @ - 1],
         lease' = [lease EXCEPT ![r] = v], pc' = NotifyAll(pc),
         UNCHANGED <<phase, provisioningCount, lost>>
  PROVE  PoolCore(lost)' /\ Idle' = Idle \ {v}
<1> DEFINE w == lease[r]
<1>1. /\ pc[r] = "leased" /\ w \in Workers /\ w \in Leased /\ w \notin Idle \cup lost
      /\ \A q \in Requests : pc[q] = "leased" /\ lease[q] = w => q = r
  BY HeldWhileResuming
<1>2. allWorkers' = allWorkers \ {w}
  OBVIOUS
<1> HIDE DEF w
<1> USE DEF PauseInv, PoolCore
<1>3. /\ pc' \in [Requests -> Locations]
      /\ \A q \in Requests : /\ pc'[q] # "waiting"
                             /\ pc'[q] = "leased" <=> pc[q] = "leased"
                             /\ pc'[q] = "provisioning" <=> pc[q] = "provisioning"
  BY NotifyAllFacts DEF TypeOK
<1>4. v \in Workers /\ idleWorkers[v] = 1 /\ v \notin Leased
  BY DEF Idle, ExclusiveLease, TypeOK
<1>5. /\ IsFiniteSet(allWorkers') /\ Cardinality(allWorkers') <= Cardinality(allWorkers)
      /\ Cardinality(allWorkers') \in Nat /\ Cardinality(allWorkers) \in Nat
  <2>1. IsFiniteSet(allWorkers)
    BY DEF TypeOK
  <2> QED
    BY <1>2, <2>1, CardinalityDiff
<1>6. TypeOK'
  <2>1. idleWorkers' \in [Workers -> Nat]
    BY <1>4 DEF TypeOK
  <2>2. /\ lease' \in [Requests -> Workers \cup {NoWorker}] /\ phase' = phase
        /\ provisioningCount' = provisioningCount
    BY <1>4 DEF TypeOK
  <2>3. allWorkers' \in SUBSET Workers
    BY <1>2 DEF TypeOK
  <2> QED
    BY <1>3, <1>5, <2>1, <2>2, <2>3 DEF TypeOK
<1>7. Idle' = Idle \ {v} /\ InFlight' = InFlight
  BY <1>3, <1>4 DEF Idle, InFlight, TypeOK
<1>8. Leased' = (Leased \ {w}) \cup {v}
  BY <1>1, <1>3 DEF Leased, TypeOK, w
<1>9. LeaseMatchesLocation' /\ NoStrandedWaiter' /\ CapacityBound'
  BY <1>1, <1>3, <1>4, <1>5, CapacityAssumption
  DEF LeaseMatchesLocation, NoStrandedWaiter, CapacityBound, TypeOK
<1>10. ExclusiveLease'
  <2>1. ASSUME NEW q \in Requests, q # r, pc'[q] = "leased" PROVE lease'[q] # v
    BY <1>3, <1>4, <2>1 DEF Leased, TypeOK
  <2>2. \A p, q \in Requests :
          pc'[p] = "leased" /\ pc'[q] = "leased" /\ lease'[p] = lease'[q] => p = q
    BY <1>3, <2>1 DEF ExclusiveLease, TypeOK
  <2>3. Idle' \cap Leased' = {} /\ \A u \in Workers : idleWorkers'[u] <= 1
    BY <1>4, <1>7, <1>8 DEF ExclusiveLease, TypeOK
  <2> QED
    BY <2>2, <2>3 DEF ExclusiveLease
<1>11. Ledger(lost)'
  BY <1>1, <1>2, <1>7, <1>8, <1>4 DEF Ledger
<1> QED
  BY <1>6, <1>7, <1>9, <1>10, <1>11

\* ... or reserves the capacity that it has just freed.
LEMMA ResumeFailReserves ==
  ASSUME PauseInv, NEW r \in Requests, stage[r] = "resuming",
         allWorkers' = allWorkers \ {lease[r]},
         provisioningCount' = provisioningCount + 1,
         lease' = [lease EXCEPT ![r] = NoWorker],
         pc' = NotifyAll([pc EXCEPT ![r] = "provisioning"]),
         UNCHANGED <<phase, idleWorkers, lost>>
  PROVE  PoolCore(lost)' /\ Idle' = Idle
<1> DEFINE w == lease[r]
<1>1. /\ pc[r] = "leased" /\ w \in Workers /\ w \in Leased /\ w \notin Idle \cup lost
      /\ \A q \in Requests : pc[q] = "leased" /\ lease[q] = w => q = r
      /\ w \in allWorkers
  BY HeldWhileResuming
<1>2. allWorkers' = allWorkers \ {w}
  OBVIOUS
<1> HIDE DEF w
<1> USE DEF PauseInv, PoolCore
<1>3. /\ pc' \in [Requests -> Locations]
      /\ \A q \in Requests : /\ pc'[q] # "waiting"
                             /\ pc'[q] = "leased" <=> pc[q] = "leased" /\ q # r
                             /\ pc'[q] = "provisioning" <=> pc[q] = "provisioning" \/ q = r
  BY DEF NotifyAll, Locations, TypeOK
<1>4. /\ IsFiniteSet(allWorkers') /\ Cardinality(allWorkers') = Cardinality(allWorkers) - 1
      /\ Cardinality(allWorkers) \in Nat
  BY <1>1, <1>2, CardinalityRemove DEF TypeOK
<1>5. TypeOK'
  <2>1. /\ lease' \in [Requests -> Workers \cup {NoWorker}] /\ phase' = phase
        /\ provisioningCount' \in Nat /\ idleWorkers' = idleWorkers
    BY DEF TypeOK
  <2>2. allWorkers' \in SUBSET Workers
    BY <1>2 DEF TypeOK
  <2> QED
    BY <1>3, <1>4, <2>1, <2>2 DEF TypeOK
<1>6. Idle' = Idle /\ InFlight' = InFlight \cup {r} /\ r \notin InFlight
  BY <1>1, <1>3 DEF Idle, InFlight
<1>7. Cardinality(InFlight') = Cardinality(InFlight) + 1
  BY <1>6, InFlightFinite, CardinalityAdd
<1>8. Leased' = Leased \ {w}
  BY <1>1, <1>3 DEF Leased, TypeOK, w
<1>9. LeaseMatchesLocation' /\ NoStrandedWaiter'
  BY <1>3 DEF LeaseMatchesLocation, NoStrandedWaiter, TypeOK
<1>10. CapacityBound'
  <2>1. Cardinality(allWorkers') \in Nat
    BY <1>4, FS_CardinalityType
  <2> QED
    BY <1>4, <2>1, CapacityAssumption DEF CapacityBound, TypeOK
<1>11. ExclusiveLease'
  BY <1>3, <1>6, <1>8 DEF ExclusiveLease, TypeOK
<1>12. Ledger(lost)'
  BY <1>1, <1>2, <1>6, <1>7, <1>8 DEF Ledger
<1> QED
  BY <1>5, <1>6, <1>9, <1>10, <1>11, <1>12

----------------------------------------------------------------------------
(* The manager's part: acquiring *)

\* The actions of one request leave the other leases and stages as they are.
OthersKept(r) == \A q \in Requests \ {r} : /\ pc'[q] = "leased" <=> pc[q] = "leased"
                                           /\ lease'[q] = lease[q] /\ stage'[q] = stage[q]

\* So a worker that another request has in hand stays in hand.
LEMMA InHandKept ==
  ASSUME PauseInv, NEW r \in Requests, OthersKept(r), NEW u, InHand(u), u # lease[r]
  PROVE  InHand(u)'
<1>1. PICK q \in Requests : /\ pc[q] = "leased" /\ lease[q] = u
                            /\ stage[q] \in {"cancelling", "resuming"}
  BY DEF InHand
<1>2. q # r
  BY <1>1
<1> QED
  BY <1>1, <1>2 DEF InHand, OthersKept

\* CancelTask() ends the tasks of ws and makes no outcome known.
LEMMA CancelTaskFacts ==
  ASSUME PauseTypes, NEW ws, CancelTask(ws)
  PROVE  /\ pauseTask' \in [Workers -> {"none", "sleeping", "calling"}]
         /\ unsure' \in [Workers -> {"no", "running", "over"}]
         /\ \A u \in Workers : /\ u \in ws => pauseTask'[u] = "none"
                               /\ pauseTask'[u] # "none" => pauseTask[u] # "none"
                               /\ unsure[u] # "no" => unsure'[u] # "no"
  BY DEF PauseTypes, CancelTask

\* The worker that pool.acquire() returns loses its pause task, and is served
\* at once only if it is not listed as paused.
LEMMA HandedOutFacts ==
  ASSUME PauseInv, NEW r \in Requests, NEW v \in Workers, HandedOut(r, v), OthersKept(r),
         pc'[r] = "leased", lease'[r] = v, Idle' = Idle \ {v},
         UNCHANGED <<pruning, lost>>, v \notin pruning,
         pausedIds' \in SUBSET pausedIds, frozen' \in SUBSET frozen
  PROVE  /\ PauseTypes' /\ StageMatchesLease' /\ TaskOnlyWhileIdle'
         /\ v \in pausedIds => InHand(v)'
         /\ \A u \in Workers : unsure[u] # "no" => unsure'[u] # "no"
<1> USE DEF PauseInv, ManagerPart
<1>1. /\ pauseTask' \in [Workers -> {"none", "sleeping", "calling"}]
      /\ unsure' \in [Workers -> {"no", "running", "over"}]
      /\ pauseTask'[v] = "none"
      /\ \A u \in Workers : /\ pauseTask'[u] # "none" => pauseTask[u] # "none"
                            /\ unsure[u] # "no" => unsure'[u] # "no"
  BY CancelTaskFacts DEF HandedOut
<1>2. /\ stage' \in [Requests -> {"none", "cancelling", "resuming", "serving"}]
      /\ stage'[r] # "none"
      /\ v \in pausedIds => stage'[r] \in {"cancelling", "resuming"}
  BY DEF HandedOut, StageOnceCancelled, PauseTypes
<1>3. PauseTypes'
  BY <1>1, <1>2 DEF PauseTypes
<1>4. StageMatchesLease'
  BY <1>2 DEF StageMatchesLease, OthersKept
<1>5. TaskOnlyWhileIdle'
  BY <1>1 DEF TaskOnlyWhileIdle
<1>6. v \in pausedIds => InHand(v)'
  BY <1>2 DEF InHand
<1> QED
  BY <1>1, <1>3, <1>4, <1>5, <1>6

\* A queued worker is handed out.
LEMMA AcquireIdlePreserves ==
  ASSUME PauseInv, NEW r \in Requests, AcquireIdle(r)
  PROVE  PauseInv'
<1> USE DEF PauseInv, ManagerPart
<1>1. PICK v \in Idle : /\ idleWorkers' = [idleWorkers EXCEPT ![v] = @ - 1]
                        /\ lease' = [lease EXCEPT ![r] = v]
  BY DEF AcquireIdle, TakeIdle
<1>2. /\ pc' = [pc EXCEPT ![r] = "leased"] /\ pc[r] # "leased" /\ allWorkers' = allWorkers
      /\ UNCHANGED <<pausedIds, pruning, frozen, lost>> /\ HandedOut(r, lease'[r])
  BY DEF AcquireIdle, TakeIdle, AtLoopHead
<1>3. PoolCore(lost)'
  BY PoolOnlyKeepsCore DEF AcquireIdle
<1>4. v \in Workers /\ idleWorkers[v] = 1 /\ v \in allWorkers /\ v \notin pruning
  BY DEF PoolCore, TypeOK, Idle, ExclusiveLease, Ledger, PrunedAreOut
<1>5. Idle' = Idle \ {v} /\ lease'[r] = v /\ pc'[r] = "leased"
  BY <1>1, <1>2, <1>4 DEF PoolCore, TypeOK, Idle
<1>6. OthersKept(r)
  BY <1>1, <1>2 DEF OthersKept, HandedOut, PoolCore, TypeOK, PauseTypes
<1>7. /\ PauseTypes' /\ StageMatchesLease' /\ TaskOnlyWhileIdle'
      /\ v \in pausedIds => InHand(v)'
      /\ \A u \in Workers : unsure[u] # "no" => unsure'[u] # "no"
  BY <1>2, <1>4, <1>5, <1>6, HandedOutFacts
<1>8. ASSUME NEW u \in pausedIds, u # v, InHand(u) PROVE InHand(u)'
  <2>1. lease[r] = NoWorker /\ u \in Workers
    BY <1>2 DEF PoolCore, LeaseMatchesLocation, PauseTypes
  <2> QED
    BY <1>6, <1>8, <2>1, InHandKept, NoWorkerAssumption
<1>9. PausedAreOutOfUse'
  BY <1>2, <1>5, <1>7, <1>8 DEF PausedAreOutOfUse
<1>10. PrunedAreOut' /\ FrozenIsKnown'
  BY <1>2, <1>7 DEF PrunedAreOut, FrozenIsKnown, PauseTypes
<1> QED
  BY <1>3, <1>7, <1>9, <1>10

\* A new one is: no pause call has ever concerned it.
LEMMA AcquireNewPreserves ==
  ASSUME PauseInv, NEW r \in Requests, NEW v \in Workers, AcquireNew(r, v)
  PROVE  PauseInv'
<1> USE DEF PauseInv, ManagerPart
<1>1. /\ pc' = [pc EXCEPT ![r] = "leased"] /\ pc[r] # "leased" /\ v \notin allWorkers
      /\ lease' = [lease EXCEPT ![r] = v] /\ allWorkers' = allWorkers \cup {v}
      /\ idleWorkers' = idleWorkers /\ v \notin frozen \cup pausedIds \cup pruning
      /\ UNCHANGED <<pausedIds, pruning, frozen, lost>> /\ HandedOut(r, v)
  BY DEF AcquireNew, ProvisionOk
<1>2. PoolCore(lost)'
  BY PoolOnlyKeepsCore DEF AcquireNew
<1>3. Idle' = Idle \ {v} /\ lease'[r] = v /\ pc'[r] = "leased"
  BY <1>1 DEF PoolCore, TypeOK, Idle, Ledger
<1>4. OthersKept(r)
  BY <1>1 DEF OthersKept, HandedOut, PoolCore, TypeOK, PauseTypes
<1>5. /\ PauseTypes' /\ StageMatchesLease' /\ TaskOnlyWhileIdle'
      /\ \A u \in Workers : unsure[u] # "no" => unsure'[u] # "no"
  BY <1>1, <1>3, <1>4, HandedOutFacts
<1>6. ASSUME NEW u \in pausedIds, InHand(u) PROVE InHand(u)'
  <2>1. lease[r] = NoWorker /\ u \in Workers
    BY <1>1 DEF PoolCore, LeaseMatchesLocation, PauseTypes
  <2> QED
    BY <1>4, <1>6, <2>1, InHandKept, NoWorkerAssumption
<1>7. PausedAreOutOfUse'
  BY <1>1, <1>3, <1>6 DEF PausedAreOutOfUse
<1>8. PrunedAreOut' /\ FrozenIsKnown'
  BY <1>1, <1>5 DEF PrunedAreOut, FrozenIsKnown, PauseTypes
<1> QED
  BY <1>2, <1>5, <1>7, <1>8

\* Waiting, reserving and giving up concern no worker; nor do starting and halting.
LEMMA NoWorkerPreserves ==
  ASSUME PauseInv, \/ \E r \in Requests : AcquireNoWorker(r)
                   \/ Serving \/ PauseHalted \/ UNCHANGED pausingVars
  PROVE  PauseInv'
<1> USE DEF PauseInv, ManagerPart
<1>1. UNCHANGED <<stage, pauseTask, pausedIds, pruning, frozen, unsure, lost>>
  BY DEF AcquireNoWorker, Serving, PauseHalted, pausingVars, pauseVars
<1>2. PoolCore(lost)'
  BY <1>1, PoolOnlyKeepsCore DEF AcquireNoWorker, Serving, PauseHalted, Closed, pausingVars
<1>3. UNCHANGED <<idleWorkers, allWorkers, lease>>
  BY DEF AcquireNoWorker, Reserve, Wait, GiveUp, ProvisionFail, Serving, StartServing,
         PauseHalted, Closed, pausingVars, vars
<1>4. \A q \in Requests : pc'[q] = "leased" <=> pc[q] = "leased"
  <2>1. ASSUME NEW r \in Requests, AcquireNoWorker(r)
        PROVE  \A q \in Requests : pc'[q] = "leased" <=> pc[q] = "leased"
    BY <2>1 DEF AcquireNoWorker, Reserve, Wait, GiveUp, ProvisionFail, AtLoopHead,
                NotifyAll, Locations, PoolCore, TypeOK
  <2>2. Serving \/ PauseHalted \/ UNCHANGED pausingVars => UNCHANGED pc
    BY DEF Serving, StartServing, PauseHalted, Closed, pausingVars, vars
  <2> QED
    BY <2>1, <2>2
<1>5. PauseTypes' /\ StageMatchesLease' /\ PrunedAreOut' /\ FrozenIsKnown'
  BY <1>1, <1>3, <1>4 DEF PauseTypes, StageMatchesLease, PrunedAreOut, FrozenIsKnown
<1>6. TaskOnlyWhileIdle' /\ PausedAreOutOfUse'
  BY <1>1, <1>3, <1>4 DEF TaskOnlyWhileIdle, PausedAreOutOfUse, Idle, InHand
<1> QED
  BY <1>2, <1>5, <1>6

\* The awaited pause task has ended, or the container runs again.
LEMMA ResumedPreserves ==
  ASSUME PauseInv, NEW r \in Requests, CancelDone(r) \/ ResumeOk(r)
  PROVE  PauseInv'
<1> USE DEF PauseInv, ManagerPart
<1> DEFINE w == lease[r]
<1>1. /\ pc[r] = "leased" /\ w \in Workers
      /\ \A q \in Requests : pc[q] = "leased" /\ lease[q] = w => q = r
  BY HeldWhileResuming DEF CancelDone, ResumeOk
<1>2. /\ UNCHANGED vars /\ UNCHANGED <<pauseTask, pruning, unsure, lost>>
      /\ \/ /\ UNCHANGED <<pausedIds, frozen>>
            /\ stage' = [stage EXCEPT ![r] = IF w \in pausedIds THEN "resuming" ELSE "serving"]
         \/ /\ pausedIds' = pausedIds \ {w} /\ frozen' = frozen \ {w}
            /\ stage' = [stage EXCEPT ![r] = "serving"]
  BY DEF CancelDone, ResumeOk, StageOnceCancelled
<1> HIDE DEF w
<1>3. PoolCore(lost)'
  BY <1>2, PoolOnlyKeepsCore
<1>4. UNCHANGED <<idleWorkers, allWorkers, lease, pc>> /\ Idle' = Idle
  BY <1>2 DEF vars, Idle
<1>5. PauseTypes' /\ StageMatchesLease' /\ TaskOnlyWhileIdle' /\ PrunedAreOut' /\ FrozenIsKnown'
  BY <1>1, <1>2, <1>4 DEF PauseTypes, StageMatchesLease, TaskOnlyWhileIdle, PrunedAreOut,
                          FrozenIsKnown
<1>6. OthersKept(r)
  BY <1>2, <1>4 DEF OthersKept, PauseTypes
<1>7. ASSUME NEW u \in pausedIds', InHand(u) PROVE InHand(u)'
  <2>1. CASE u = w
    <3>1. stage' = [stage EXCEPT ![r] = "resuming"]
      BY <1>2, <1>7, <2>1
    <3> QED
      BY <1>1, <1>4, <2>1, <3>1 DEF InHand, PauseTypes, w
  <2>2. CASE u # w
    BY <1>6, <1>7, <2>2, InHandKept DEF w
  <2> QED
    BY <2>1, <2>2
<1>8. PausedAreOutOfUse'
  BY <1>2, <1>4, <1>7 DEF PausedAreOutOfUse
<1> QED
  BY <1>3, <1>5, <1>8

\* The container could not be resumed: it leaves the ledger and the list together.
LEMMA ResumeFailPreserves ==
  ASSUME PauseInv, NEW r \in Requests, ResumeFail(r)
  PROVE  PauseInv'
<1> USE DEF PauseInv, ManagerPart
<1> DEFINE w == lease[r]
<1>1. /\ pc[r] = "leased" /\ w \in Workers /\ w \notin Idle \cup lost \cup pruning
      /\ \A q \in Requests : pc[q] = "leased" /\ lease[q] = w => q = r
  BY HeldWhileResuming DEF ResumeFail
<1>2. /\ allWorkers' = allWorkers \ {w} /\ pausedIds' = pausedIds \ {w}
      /\ frozen' \in SUBSET frozen /\ stage[r] = "resuming" /\ UNCHANGED <<phase, pruning, lost>>
  BY DEF ResumeFail, PauseTypes
<1>3. CASE \E v \in Idle : /\ idleWorkers' = [idleWorkers EXCEPT ![v] = @ - 1]
                           /\ lease' = [lease EXCEPT ![r] = v]
                           /\ pc' = NotifyAll(pc)
                           /\ HandedOut(r, v)
                           /\ UNCHANGED provisioningCount
  <2>1. PICK v \in Idle : /\ idleWorkers' = [idleWorkers EXCEPT ![v] = @ - 1]
                          /\ lease' = [lease EXCEPT ![r] = v]
                          /\ pc' = NotifyAll(pc)
                          /\ HandedOut(r, v)
                          /\ UNCHANGED provisioningCount
    BY <1>3
  <2>2. PoolCore(lost)' /\ Idle' = Idle \ {v}
    BY <1>2, <2>1, ResumeFailTakesIdle
  <2>3. v \in Workers /\ v \notin pruning /\ v # w
    BY <1>1 DEF PoolCore, Idle, Ledger, PrunedAreOut
  <2>4. \A q \in Requests : pc'[q] = "leased" <=> pc[q] = "leased"
    BY <2>1, NotifyAllFacts DEF PoolCore, TypeOK
  <2>5. lease'[r] = v /\ pc'[r] = "leased" /\ OthersKept(r)
    BY <1>1, <2>1, <2>4 DEF OthersKept, HandedOut, PoolCore, TypeOK, PauseTypes
  <2>6. /\ PauseTypes' /\ StageMatchesLease' /\ TaskOnlyWhileIdle'
        /\ v \in pausedIds => InHand(v)'
        /\ \A u \in Workers : unsure[u] # "no" => unsure'[u] # "no"
    BY <1>2, <2>1, <2>2, <2>3, <2>5, HandedOutFacts
  <2>7. ASSUME NEW u \in pausedIds', InHand(u) PROVE InHand(u)'
    BY <1>2, <2>5, <2>7, InHandKept
  <2>8. PausedAreOutOfUse'
    BY <1>2, <2>2, <2>6, <2>7 DEF PausedAreOutOfUse
  <2>9. PrunedAreOut' /\ FrozenIsKnown'
    BY <1>2, <2>6 DEF PrunedAreOut, FrozenIsKnown, PauseTypes
  <2> QED
    BY <2>2, <2>6, <2>8, <2>9
<1>4. CASE /\ Idle = {}
           /\ provisioningCount' = provisioningCount + 1
           /\ lease' = [lease EXCEPT ![r] = NoWorker]
           /\ pc' = NotifyAll([pc EXCEPT ![r] = "provisioning"])
           /\ stage' = [stage EXCEPT ![r] = "none"]
           /\ UNCHANGED <<idleWorkers, pauseTask, unsure>>
  <2>1. PoolCore(lost)' /\ Idle' = Idle
    BY <1>2, <1>4, ResumeFailReserves
  <2>2. \A q \in Requests : pc'[q] = "leased" <=> pc[q] = "leased" /\ q # r
    BY <1>4 DEF NotifyAll, PoolCore, TypeOK, Locations
  <2>3. PauseTypes'
    BY <1>2, <1>4 DEF PauseTypes
  <2>4. StageMatchesLease' /\ TaskOnlyWhileIdle'
    BY <1>2, <1>4, <2>1, <2>2 DEF StageMatchesLease, TaskOnlyWhileIdle, PauseTypes
  <2>5. OthersKept(r)
    BY <1>4, <2>2 DEF OthersKept, PoolCore, TypeOK, PauseTypes
  <2>6. ASSUME NEW u \in pausedIds', InHand(u) PROVE InHand(u)'
    BY <1>2, <2>5, <2>6, InHandKept
  <2>7. PausedAreOutOfUse'
    BY <1>2, <2>1, <2>6 DEF PausedAreOutOfUse
  <2>8. PrunedAreOut' /\ FrozenIsKnown'
    BY <1>2, <1>4 DEF PrunedAreOut, FrozenIsKnown, PauseTypes
  <2> QED
    BY <2>1, <2>3, <2>4, <2>7, <2>8
<1> QED
  BY <1>3, <1>4 DEF ResumeFail

\* Three ways for a request to part with its worker.
LEMMA ResumeCancelledPreserves ==
  ASSUME PauseInv, NEW r \in Requests, ResumeCancelled(r)
  PROVE  PauseInv'
<1> USE DEF PauseInv, ManagerPart
<1>1. pc[r] = "leased" /\ lease[r] \in Workers
  BY HeldWhileResuming DEF ResumeCancelled
<1>2. /\ pc' = [pc EXCEPT ![r] = "out"] /\ lease' = [lease EXCEPT ![r] = NoWorker]
      /\ stage' = [stage EXCEPT ![r] = "none"]
      /\ lost' = lost \cup {lease[r]} /\ frozen' \in SUBSET frozen
      /\ UNCHANGED <<idleWorkers, allWorkers, pauseTask, pausedIds, pruning, unsure>>
  BY DEF ResumeCancelled, PauseTypes
<1>3. PoolCore(lost)'
  BY ResumeCancelledKeepsCore
<1>4. PauseTypes'
  BY <1>1, <1>2 DEF PauseTypes
<1>5. StageMatchesLease' /\ TaskOnlyWhileIdle' /\ PrunedAreOut' /\ FrozenIsKnown' /\ Idle' = Idle
  BY <1>2 DEF StageMatchesLease, TaskOnlyWhileIdle, PrunedAreOut, FrozenIsKnown, Idle,
              PauseTypes, PoolCore, TypeOK
<1>6. OthersKept(r)
  BY <1>2 DEF OthersKept, PoolCore, TypeOK, PauseTypes
<1>7. ASSUME NEW u \in pausedIds, u # lease[r], InHand(u) PROVE InHand(u)'
  BY <1>6, <1>7, InHandKept
<1>8. PausedAreOutOfUse'
  BY <1>2, <1>5, <1>7 DEF PausedAreOutOfUse
<1> QED
  BY <1>3, <1>4, <1>5, <1>8

LEMMA ReleasePreservesPause ==
  ASSUME PauseInv, NEW r \in Requests, ReleaseAndSchedule(r)
  PROVE  PauseInv'
<1> USE DEF PauseInv, ManagerPart
<1> DEFINE w == lease[r]
<1>1. pc[r] = "leased" /\ w \in Workers /\ w \notin Idle
  BY HeldWhileResuming DEF ReleaseAndSchedule
<1>2. /\ pc' = NotifyAll([pc EXCEPT ![r] = "out"]) /\ lease' = [lease EXCEPT ![r] = NoWorker]
      /\ stage' = [stage EXCEPT ![r] = "none"]
      /\ pauseTask' = [pauseTask EXCEPT ![w] = "sleeping"]
      /\ idleWorkers' = [idleWorkers EXCEPT ![w] = @ + 1]
      /\ UNCHANGED <<allWorkers, pausedIds, pruning, frozen, unsure, lost>>
  BY DEF ReleaseAndSchedule, Release
<1> HIDE DEF w
<1>3. PoolCore(lost)'
  BY PoolOnlyKeepsCore DEF ReleaseAndSchedule
<1>4. \A q \in Requests : pc'[q] = "leased" <=> pc[q] = "leased" /\ q # r
  BY <1>2 DEF NotifyAll, PoolCore, TypeOK, Locations
<1>5. Idle' = Idle \cup {w}
  BY <1>1, <1>2 DEF Idle, PoolCore, TypeOK
<1>6. PauseTypes' /\ StageMatchesLease'
  BY <1>1, <1>2, <1>4 DEF PauseTypes, StageMatchesLease
<1>7. TaskOnlyWhileIdle' /\ PrunedAreOut' /\ FrozenIsKnown'
  BY <1>1, <1>2, <1>5 DEF TaskOnlyWhileIdle, PrunedAreOut, FrozenIsKnown, PauseTypes
<1>8. OthersKept(r)
  BY <1>2, <1>4 DEF OthersKept, PoolCore, TypeOK, PauseTypes
<1>9. ASSUME NEW u \in pausedIds, u # w, InHand(u) PROVE InHand(u)'
  BY <1>8, <1>9, InHandKept DEF w
<1>10. PausedAreOutOfUse'
  BY <1>2, <1>5, <1>9 DEF PausedAreOutOfUse
<1> QED
  BY <1>3, <1>6, <1>7, <1>10

LEMMA EvictPreservesPause ==
  ASSUME PauseInv, NEW r \in Requests, EvictServing(r)
  PROVE  PauseInv'
<1> USE DEF PauseInv, ManagerPart
<1> DEFINE w == lease[r]
<1>1. pc[r] = "leased" /\ w \in Workers /\ w \notin Idle
  BY HeldWhileResuming DEF EvictServing
<1>2. /\ pc' = NotifyAll([pc EXCEPT ![r] = "out"]) /\ lease' = [lease EXCEPT ![r] = NoWorker]
      /\ stage' = [stage EXCEPT ![r] = "none"]
      /\ allWorkers' = allWorkers \ {w} /\ pausedIds' = pausedIds \ {w}
      /\ idleWorkers' = [idleWorkers EXCEPT ![w] = 0]
      /\ CancelTask({w})
      /\ UNCHANGED <<pruning, frozen, lost>>
  BY DEF EvictServing, Evict
<1> HIDE DEF w
<1>3. PoolCore(lost)'
  BY PoolOnlyKeepsCore DEF EvictServing
<1>4. \A q \in Requests : pc'[q] = "leased" <=> pc[q] = "leased" /\ q # r
  BY <1>2 DEF NotifyAll, PoolCore, TypeOK, Locations
<1>5. Idle' = Idle
  BY <1>1, <1>2 DEF Idle, PoolCore, TypeOK
<1>6. /\ pauseTask' \in [Workers -> {"none", "sleeping", "calling"}]
      /\ unsure' \in [Workers -> {"no", "running", "over"}]
      /\ \A u \in Workers : /\ pauseTask'[u] # "none" => pauseTask[u] # "none"
                            /\ unsure[u] # "no" => unsure'[u] # "no"
  BY <1>2, CancelTaskFacts
<1>7. PauseTypes' /\ StageMatchesLease'
  BY <1>2, <1>4, <1>6 DEF PauseTypes, StageMatchesLease
<1>8. TaskOnlyWhileIdle' /\ PrunedAreOut' /\ FrozenIsKnown'
  BY <1>2, <1>5, <1>6 DEF TaskOnlyWhileIdle, PrunedAreOut, FrozenIsKnown, PauseTypes
<1>9. OthersKept(r)
  BY <1>2, <1>4 DEF OthersKept, PoolCore, TypeOK, PauseTypes
<1>10. ASSUME NEW u \in pausedIds', InHand(u) PROVE InHand(u)'
  BY <1>2, <1>9, <1>10, InHandKept DEF w
<1>11. PausedAreOutOfUse'
  BY <1>2, <1>5, <1>10 DEF PausedAreOutOfUse
<1> QED
  BY <1>3, <1>7, <1>8, <1>11

----------------------------------------------------------------------------
(* The manager's part: pause tasks, pruning and shutdown *)

\* A pause task, the agent and the janitor's deletions move no lease, so nothing
\* that is in hand leaves it.
LEMMA SameHands ==
  ASSUME UNCHANGED vars, UNCHANGED stage
  PROVE  /\ Idle' = Idle /\ UNCHANGED <<allWorkers, pc, lease>>
         /\ \A u : InHand(u)' <=> InHand(u)
  BY DEF vars, Idle, InHand

LEMMA PauseTaskPreserves ==
  ASSUME PauseInv, NEW w \in Workers,
         PauseStart(w) \/ PauseOk(w) \/ PauseFail(w) \/ LateCall(w)
  PROVE  PauseInv'
<1> USE DEF PauseInv, ManagerPart
<1>1. UNCHANGED vars /\ UNCHANGED <<stage, pruning, lost>>
  BY DEF PauseStart, PauseOk, PauseFail, LateCall
<1>2. Idle' = Idle /\ UNCHANGED <<allWorkers, pc, lease>> /\ \A u : InHand(u)' <=> InHand(u)
  BY <1>1, SameHands
<1>3. PoolCore(lost)'
  BY <1>1, PoolOnlyKeepsCore
<1>4. /\ pauseTask' \in [Workers -> {"none", "sleeping", "calling"}]
      /\ \A u \in Workers : pauseTask'[u] # "none" => pauseTask[u] # "none"
  BY DEF PauseStart, PauseOk, PauseFail, LateCall, PauseTypes
<1>5. /\ unsure' \in [Workers -> {"no", "running", "over"}]
      /\ \A u \in Workers : unsure[u] # "no" => unsure'[u] # "no"
  BY DEF PauseStart, PauseOk, PauseFail, LateCall, PauseTypes
<1>6. \/ pausedIds' = pausedIds
      \/ pausedIds' = pausedIds \cup {w} /\ w \in Idle \cup pruning
  BY DEF PauseStart, PauseOk, PauseFail, LateCall, TaskOnlyWhileIdle
<1>7. \/ frozen' = frozen
      \/ frozen' = frozen \cup {w} /\ (w \in pausedIds' \/ unsure'[w] # "no")
  BY DEF PauseStart, PauseOk, PauseFail, LateCall, PauseTypes
<1>8. PauseTypes' /\ StageMatchesLease' /\ TaskOnlyWhileIdle' /\ PrunedAreOut'
  BY <1>1, <1>2, <1>4, <1>5, <1>6, <1>7
  DEF PauseTypes, StageMatchesLease, TaskOnlyWhileIdle, PrunedAreOut
<1>9. PausedAreOutOfUse' /\ FrozenIsKnown'
  BY <1>1, <1>2, <1>5, <1>6, <1>7 DEF PausedAreOutOfUse, FrozenIsKnown, PauseTypes
<1> QED
  BY <1>3, <1>8, <1>9

\* A prune round takes queued workers and clears up after them one by one.
LEMMA PrunePreservesPause ==
  ASSUME PauseInv, NEW expired \in SUBSET Idle, PauseAwarePrune(expired)
  PROVE  PauseInv'
<1> USE DEF PauseInv, ManagerPart
<1>1. /\ pruning = {} /\ pruning' = expired /\ allWorkers' = allWorkers \ expired
      /\ UNCHANGED <<stage, pauseTask, pausedIds, frozen, unsure, lost, lease>>
      /\ pc' = NotifyAll(pc)
  BY DEF PauseAwarePrune, Prune
<1>2. PoolCore(lost)'
  BY PoolOnlyKeepsCore DEF PauseAwarePrune
<1>3. \A q \in Requests : pc'[q] = "leased" <=> pc[q] = "leased"
  BY <1>1, NotifyAllFacts DEF PoolCore, TypeOK
<1>4. Idle' = Idle \ expired
  BY DEF PauseAwarePrune, Prune, Idle, PoolCore, TypeOK
<1>5. PauseTypes' /\ StageMatchesLease' /\ PrunedAreOut' /\ FrozenIsKnown'
  BY <1>1, <1>3 DEF PauseTypes, StageMatchesLease, PrunedAreOut, FrozenIsKnown, Idle
<1>6. TaskOnlyWhileIdle'
  BY <1>1, <1>4 DEF TaskOnlyWhileIdle
<1>7. PausedAreOutOfUse'
  BY <1>1, <1>3, <1>4 DEF PausedAreOutOfUse, InHand
<1> QED
  BY <1>2, <1>5, <1>6, <1>7

LEMMA PruneClearPreserves ==
  ASSUME PauseInv, NEW w \in Workers, PruneClear(w) \/ Deleted(w)
  PROVE  PauseInv'
<1> USE DEF PauseInv, ManagerPart
<1>1. UNCHANGED vars /\ UNCHANGED <<stage, lost>>
  BY DEF PruneClear, Deleted
<1>2. Idle' = Idle /\ UNCHANGED <<allWorkers, pc, lease>> /\ \A u : InHand(u)' <=> InHand(u)
  BY <1>1, SameHands
<1>3. PoolCore(lost)'
  BY <1>1, PoolOnlyKeepsCore
<1>4. CASE PruneClear(w)
  <2>1. /\ w \in pruning /\ pruning' = pruning \ {w} /\ pausedIds' = pausedIds \ {w}
        /\ CancelTask({w}) /\ frozen' = frozen
    BY <1>4 DEF PruneClear
  <2>2. /\ pauseTask' \in [Workers -> {"none", "sleeping", "calling"}]
        /\ unsure' \in [Workers -> {"no", "running", "over"}]
        /\ pauseTask'[w] = "none"
        /\ \A u \in Workers : /\ pauseTask'[u] # "none" => pauseTask[u] # "none"
                              /\ unsure[u] # "no" => unsure'[u] # "no"
    BY <2>1, CancelTaskFacts
  <2>3. PauseTypes' /\ StageMatchesLease' /\ PrunedAreOut' /\ TaskOnlyWhileIdle'
    BY <1>1, <1>2, <2>1, <2>2
    DEF PauseTypes, StageMatchesLease, PrunedAreOut, TaskOnlyWhileIdle
  <2>4. PausedAreOutOfUse' /\ FrozenIsKnown'
    BY <1>1, <1>2, <2>1, <2>2 DEF PausedAreOutOfUse, FrozenIsKnown, PrunedAreOut, PauseTypes
  <2> QED
    BY <1>3, <2>3, <2>4
<1>5. CASE Deleted(w)
  <2>1. /\ w \notin allWorkers /\ frozen' = frozen \ {w}
        /\ unsure' = [unsure EXCEPT ![w] = "no"]
        /\ UNCHANGED <<pauseTask, pausedIds, pruning>>
    BY <1>5 DEF Deleted
  <2>2. PauseTypes' /\ StageMatchesLease' /\ PrunedAreOut' /\ TaskOnlyWhileIdle'
    BY <1>1, <1>2, <2>1 DEF PauseTypes, StageMatchesLease, PrunedAreOut, TaskOnlyWhileIdle
  <2>3. PausedAreOutOfUse' /\ FrozenIsKnown'
    BY <1>1, <1>2, <2>1 DEF PausedAreOutOfUse, FrozenIsKnown, PauseTypes
  <2> QED
    BY <1>3, <2>2, <2>3
<1> QED
  BY <1>4, <1>5

\* shutdown_all() forgets everything, lost workers included.
LEMMA ShutdownPreserves ==
  ASSUME PauseInv, PauseShutdown
  PROVE  PauseInv'
<1> USE DEF PauseInv, ManagerPart
<1>1. PoolCore({})'
  BY DrainPreserves DEF PauseShutdown
<1>2. /\ lost' = {} /\ pausedIds' = {} /\ pruning' = {} /\ allWorkers' = {}
      /\ UNCHANGED <<stage, frozen>> /\ CancelTask(Workers)
  BY DEF PauseShutdown, Drain
<1>3. PoolCore(lost)'
  BY <1>1, <1>2 DEF PoolCore, Ledger
<1>4. \A q \in Requests : pc'[q] = "leased" <=> pc[q] = "leased"
  BY NotifyAllFacts DEF PauseShutdown, Drain, PoolCore, TypeOK
<1>5. /\ pauseTask' \in [Workers -> {"none", "sleeping", "calling"}]
      /\ unsure' \in [Workers -> {"no", "running", "over"}]
      /\ \A u \in Workers : pauseTask'[u] = "none"
  BY <1>2, CancelTaskFacts
<1>6. PauseTypes' /\ StageMatchesLease' /\ TaskOnlyWhileIdle'
  BY <1>2, <1>4, <1>5 DEF PauseTypes, StageMatchesLease, TaskOnlyWhileIdle
<1>7. PrunedAreOut' /\ PausedAreOutOfUse' /\ FrozenIsKnown'
  BY <1>2 DEF PrunedAreOut, PausedAreOutOfUse, FrozenIsKnown
<1> QED
  BY <1>3, <1>6, <1>7

----------------------------------------------------------------------------
(* The inductive invariant *)

LEMMA PauseInitial == PauseInit => PauseInv
<1> SUFFICES ASSUME PauseInit PROVE PauseInv
  OBVIOUS
<1>1. PoolCore({})
  BY PoolInit, NothingLost DEF PauseInit
<1>2. PoolCore(lost)
  BY <1>1 DEF PauseInit
<1>3. ManagerPart
  BY DEF PauseInit, Init, ManagerPart, PauseTypes, StageMatchesLease, TaskOnlyWhileIdle,
         PrunedAreOut, PausedAreOutOfUse, FrozenIsKnown
<1> QED
  BY <1>2, <1>3 DEF PauseInv

LEMMA PauseStep == PauseInv /\ [PauseNext]_pausingVars => PauseInv'
  BY NoWorkerPreserves, AcquireIdlePreserves, AcquireNewPreserves, ResumedPreserves,
     ResumeFailPreserves, ResumeCancelledPreserves, ReleasePreservesPause,
     EvictPreservesPause, PauseTaskPreserves, PrunePreservesPause, PruneClearPreserves,
     ShutdownPreserves DEF PauseNext

\* A served request holds a worker that is not listed: the only places left for a
\* listed one exclude it.
LEMMA ServedIsNotListed ==
  ASSUME PauseInv, NEW r \in Requests, stage[r] = "serving"
  PROVE  lease[r] \notin pausedIds
<1>1. /\ lease[r] \notin Idle \cup lost \cup pruning
      /\ \A q \in Requests : pc[q] = "leased" /\ lease[q] = lease[r] => q = r
  BY HeldWhileResuming
<1>2. ~InHand(lease[r])
  BY <1>1 DEF InHand
<1> QED
  BY <1>1, <1>2 DEF PauseInv, ManagerPart, PausedAreOutOfUse

----------------------------------------------------------------------------
(* Theorems *)

\* acquire_worker() never returns a worker that is known to be paused.
THEOREM PausedWorkersAreResumed == PauseSpec => []PausedAreOutOfUse
<1>1. PauseInv => PausedAreOutOfUse
  BY DEF PauseInv, ManagerPart
<1> QED
  BY PauseInitial, PauseStep, <1>1, PTL DEF PauseSpec

\* Only a pause call of unknown outcome can leave a request with a frozen container.
THEOREM FrozenNeedsLostCall == PauseSpec => []FrozenServesOnlyAfterLostCall
<1>1. PauseInv => FrozenServesOnlyAfterLostCall
  <2> SUFFICES ASSUME PauseInv, NEW r \in Requests, stage[r] = "serving", lease[r] \in frozen
               PROVE  unsure[lease[r]] # "no"
    BY DEF FrozenServesOnlyAfterLostCall
  <2>1. lease[r] \in allWorkers /\ lease[r] \notin pausedIds
    BY HeldWhileResuming, ServedIsNotListed
  <2> QED
    BY <2>1 DEF PauseInv, ManagerPart, FrozenIsKnown
<1> QED
  BY PauseInitial, PauseStep, <1>1, PTL DEF PauseSpec

\* A cancelled resume is the only way to lose capacity.
THEOREM OnlyLeakIsCancelledResume == PauseSpec => []OnlyCancelledResumeLeaks
<1>1. PauseInv => OnlyCancelledResumeLeaks
  BY DEF PauseInv, PoolCore, Ledger, OnlyCancelledResumeLeaks
<1> QED
  BY PauseInitial, PauseStep, <1>1, PTL DEF PauseSpec

\* The resume loop, which evicts and reserves in one go, keeps max_capacity too.
THEOREM PausingKeepsCapacity == PauseSpec => []CapacityBound
<1>1. PauseInv => CapacityBound
  BY DEF PauseInv, PoolCore
<1> QED
  BY PauseInitial, PauseStep, <1>1, PTL DEF PauseSpec
=============================================================================
