------------------------ MODULE ContainerPoolProofs ------------------------
(***************************************************************************)
(* ContainerPool's invariants for every number of requests, every set of   *)
(* workers and every capacity.  None of them is inductive alone: the bound *)
(* on the capacity needs the counter to be exact, the exact ledger needs   *)
(* leases to be exclusive, and both need the location of a task to tell    *)
(* whether it has a lease.  PoolInv is their conjunction.                  *)
(***************************************************************************)
EXTENDS ContainerPool, FiniteSetTheorems, TLAPS

\* A task has a worker exactly when acquire() has returned one to it.
LeaseMatchesLocation ==
  \A r \in Requests : IF pc[r] = "leased" THEN lease[r] \in Workers
                      ELSE lease[r] = NoWorker

PoolInv == /\ TypeOK
           /\ LeaseMatchesLocation
           /\ ExclusiveLease
           /\ LedgerExact
           /\ CapacityBound
           /\ NoStrandedWaiter

\* The same when the ledger also counts the workers of L, which nobody queues or
\* holds: a caller of the pool may lose one (ContainerPause).  The lemmas on the
\* pool's actions are stated for every L.
Ledger(L) == /\ allWorkers = Idle \cup Leased \cup L
             /\ L \cap (Idle \cup Leased) = {}
             /\ provisioningCount = Cardinality(InFlight)

PoolCore(L) == /\ TypeOK
               /\ LeaseMatchesLocation
               /\ ExclusiveLease
               /\ Ledger(L)
               /\ CapacityBound
               /\ NoStrandedWaiter

----------------------------------------------------------------------------
(* Counting *)

\* The provisions in flight are finitely many and counted by a natural number.
LEMMA InFlightFinite ==
  IsFiniteSet(InFlight) /\ Cardinality(InFlight) \in Nat
<1>1. InFlight \subseteq Requests
  BY DEF InFlight
<1>2. IsFiniteSet(InFlight)
  BY <1>1, RequestsAssumption, FS_Subset
<1> QED
  BY <1>2, FS_CardinalityType

\* One element more or less changes a cardinality by one.
LEMMA CardinalityAdd ==
  ASSUME NEW S, IsFiniteSet(S), NEW x, x \notin S
  PROVE  /\ IsFiniteSet(S \cup {x})
         /\ Cardinality(S \cup {x}) = Cardinality(S) + 1
         /\ Cardinality(S) \in Nat
  BY FS_AddElement, FS_CardinalityType

LEMMA CardinalityRemove ==
  ASSUME NEW S, IsFiniteSet(S), NEW x, x \in S
  PROVE  /\ IsFiniteSet(S \ {x})
         /\ Cardinality(S \ {x}) = Cardinality(S) - 1
         /\ Cardinality(S) \in Nat
  BY FS_RemoveElement, FS_CardinalityType

\* Dropping elements never increases a cardinality.
LEMMA CardinalityDiff ==
  ASSUME NEW S, IsFiniteSet(S), NEW T
  PROVE  /\ IsFiniteSet(S \ T)
         /\ Cardinality(S \ T) <= Cardinality(S)
         /\ Cardinality(S \ T) \in Nat
         /\ Cardinality(S) \in Nat
<1>1. S \ T \subseteq S
  OBVIOUS
<1> QED
  BY <1>1, FS_Subset, FS_CardinalityType

----------------------------------------------------------------------------
(* The inductive invariant *)

LEMMA NothingLost == (PoolInv <=> PoolCore({})) /\ (PoolInv <=> PoolCore({}))'
  BY DEF PoolInv, PoolCore, LedgerExact, Ledger

\* A pool starts in a state that satisfies every invariant.
LEMMA PoolInit == Init => PoolInv
<1> SUFFICES ASSUME Init PROVE PoolInv
  OBVIOUS
<1> USE DEF Init, Idle, Leased
<1>1. InFlight = {}
  BY DEF InFlight
<1>2. Cardinality({}) = 0 /\ IsFiniteSet({})
  BY FS_EmptySet
<1>3. TypeOK
  BY <1>2 DEF TypeOK, Locations
<1>4. LeaseMatchesLocation /\ ExclusiveLease /\ NoStrandedWaiter
  BY DEF LeaseMatchesLocation, ExclusiveLease, NoStrandedWaiter
<1>5. LedgerExact /\ CapacityBound
  BY <1>1, <1>2, CapacityAssumption DEF LedgerExact, CapacityBound
<1> QED
  BY <1>3, <1>4, <1>5 DEF PoolInv

\* After notify_all() nobody sleeps, and no other location has changed.
LEMMA NotifyAllFacts ==
  ASSUME NEW f \in [Requests -> Locations]
  PROVE  /\ NotifyAll(f) \in [Requests -> Locations]
         /\ \A r \in Requests : /\ NotifyAll(f)[r] # "waiting"
                                /\ NotifyAll(f)[r] = "leased" <=> f[r] = "leased"
                                /\ NotifyAll(f)[r] = "provisioning" <=> f[r] = "provisioning"
                                /\ NotifyAll(f)[r] = "out" <=> f[r] = "out"
  BY DEF NotifyAll, Locations

\* adopt(): the new worker is queued once and nobody holds it.
LEMMA AdoptPreserves ==
  ASSUME NEW L, PoolCore(L), NEW w \in Workers, Adopt(w)
  PROVE  PoolCore(L)'
<1> USE DEF PoolCore, TypeOK, Adopt
<1>1. /\ pc' \in [Requests -> Locations]
      /\ \A r \in Requests : /\ pc'[r] # "waiting"
                             /\ pc'[r] = "leased" <=> pc[r] = "leased"
                             /\ pc'[r] = "provisioning" <=> pc[r] = "provisioning"
  BY NotifyAllFacts
<1>2. /\ IsFiniteSet(allWorkers') /\ Cardinality(allWorkers') = Cardinality(allWorkers) + 1
      /\ Cardinality(allWorkers) \in Nat
  BY CardinalityAdd
<1>3. TypeOK'
  BY <1>1, <1>2
<1>4. Leased' = Leased /\ InFlight' = InFlight
  BY <1>1 DEF Leased, InFlight
<1>5. w \notin Idle /\ Idle' = Idle \cup {w} /\ idleWorkers[w] = 0
  BY DEF Idle, Ledger
<1>6. LeaseMatchesLocation' /\ NoStrandedWaiter'
  BY <1>1 DEF LeaseMatchesLocation, NoStrandedWaiter
<1>7. ExclusiveLease'
  BY <1>1, <1>4, <1>5 DEF ExclusiveLease, Ledger
<1>8. Ledger(L)'
  BY <1>4, <1>5 DEF Ledger
<1>9. CapacityBound'
  BY <1>2, CapacityAssumption DEF CapacityBound, HasCapacity
<1> QED
  BY <1>3, <1>6, <1>7, <1>8, <1>9

\* acquire() hands out a queued worker: it moves from the deque to the lease.
LEMMA TakeIdlePreserves ==
  ASSUME NEW L, PoolCore(L), NEW r \in Requests, TakeIdle(r)
  PROVE  PoolCore(L)'
<1> USE DEF PoolCore, TypeOK
<1>1. PICK w \in Idle : /\ idleWorkers' = [idleWorkers EXCEPT ![w] = @ - 1]
                        /\ lease' = [lease EXCEPT ![r] = w]
  BY DEF TakeIdle
<1>2. /\ pc' = [pc EXCEPT ![r] = "leased"] /\ pc[r] \in {"out", "woken"}
      /\ UNCHANGED <<phase, allWorkers, provisioningCount>>
  BY DEF TakeIdle, AtLoopHead
<1>3. w \in Workers /\ idleWorkers[w] = 1 /\ w \notin Leased
  BY <1>1 DEF Idle, ExclusiveLease
<1>4. TypeOK'
  BY <1>1, <1>2, <1>3 DEF Locations
<1>5. Idle' = Idle \ {w}
  BY <1>1, <1>3 DEF Idle
<1>6. Leased' = Leased \cup {w}
  BY <1>1, <1>2 DEF Leased
<1>7. InFlight' = InFlight
  BY <1>2 DEF InFlight
<1>8. LeaseMatchesLocation'
  BY <1>1, <1>2, <1>3 DEF LeaseMatchesLocation
<1>9. ExclusiveLease'
  <2>1. ASSUME NEW q \in Requests, q # r, pc'[q] = "leased" PROVE lease'[q] # w
    BY <1>1, <1>2, <1>3, <2>1 DEF Leased
  <2>2. lease'[r] = w
    BY <1>1
  <2>3. \A p, q \in Requests :
          pc'[p] = "leased" /\ pc'[q] = "leased" /\ lease'[p] = lease'[q] => p = q
    BY <1>1, <1>2, <2>1, <2>2 DEF ExclusiveLease
  <2>4. Idle' \cap Leased' = {}
    BY <1>5, <1>6 DEF ExclusiveLease
  <2>5. \A v \in Workers : idleWorkers'[v] <= 1
    BY <1>1, <1>3 DEF ExclusiveLease
  <2> QED
    BY <2>3, <2>4, <2>5 DEF ExclusiveLease
<1>10. Ledger(L)'
  BY <1>1, <1>2, <1>5, <1>6, <1>7 DEF Ledger
<1>11. CapacityBound'
  BY <1>2 DEF CapacityBound
<1>12. NoStrandedWaiter'
  BY <1>1, <1>2 DEF NoStrandedWaiter
<1> QED
  BY <1>4, <1>8, <1>9, <1>10, <1>11, <1>12

\* acquire() reserves a slot before it awaits the callback.
LEMMA ReservePreserves ==
  ASSUME NEW L, PoolCore(L), NEW r \in Requests, Reserve(r)
  PROVE  PoolCore(L)'
<1> USE DEF PoolCore, TypeOK, Reserve, AtLoopHead
<1>1. Cardinality(allWorkers) \in Nat
  BY FS_CardinalityType
<1>2. TypeOK'
  BY DEF Locations
<1>3. Idle' = Idle /\ Leased' = Leased
  BY DEF Idle, Leased
<1>4. r \notin InFlight /\ InFlight' = InFlight \cup {r}
  BY DEF InFlight
<1>5. Cardinality(InFlight') = Cardinality(InFlight) + 1
  BY <1>4, InFlightFinite, CardinalityAdd
<1>6. LeaseMatchesLocation' /\ ExclusiveLease'
  BY <1>3 DEF LeaseMatchesLocation, ExclusiveLease
<1>7. Ledger(L)'
  BY <1>3, <1>5 DEF Ledger
<1>8. CapacityBound'
  BY <1>1, CapacityAssumption DEF CapacityBound, HasCapacity
<1>9. NoStrandedWaiter'
  BY DEF NoStrandedWaiter
<1> QED
  BY <1>2, <1>6, <1>7, <1>8, <1>9

\* acquire() falls asleep only when the pool is exhausted.
LEMMA WaitPreserves ==
  ASSUME NEW L, PoolCore(L), NEW r \in Requests, Wait(r)
  PROVE  PoolCore(L)'
<1> USE DEF PoolCore, TypeOK, Wait, AtLoopHead
<1>1. TypeOK'
  BY DEF Locations
<1>2. Idle' = Idle /\ Leased' = Leased /\ InFlight' = InFlight /\ HasCapacity' = HasCapacity
  BY DEF Idle, Leased, InFlight, HasCapacity
<1>3. LeaseMatchesLocation' /\ ExclusiveLease'
  BY <1>2 DEF LeaseMatchesLocation, ExclusiveLease
<1>4. Ledger(L)' /\ CapacityBound'
  BY <1>2 DEF Ledger, CapacityBound
<1>5. NoStrandedWaiter'
  BY <1>2 DEF NoStrandedWaiter
<1> QED
  BY <1>1, <1>3, <1>4, <1>5

\* A waiter that times out or is cancelled takes nothing with it.
LEMMA GiveUpPreserves ==
  ASSUME NEW L, PoolCore(L), NEW r \in Requests, GiveUp(r)
  PROVE  PoolCore(L)'
<1> USE DEF PoolCore, TypeOK, GiveUp
<1>1. TypeOK'
  BY DEF Locations
<1>2. Idle' = Idle /\ Leased' = Leased /\ InFlight' = InFlight /\ HasCapacity' = HasCapacity
  BY DEF Idle, Leased, InFlight, HasCapacity
<1>3. LeaseMatchesLocation' /\ ExclusiveLease'
  BY <1>2 DEF LeaseMatchesLocation, ExclusiveLease
<1>4. Ledger(L)' /\ CapacityBound'
  BY <1>2 DEF Ledger, CapacityBound
<1>5. NoStrandedWaiter'
  BY <1>2 DEF NoStrandedWaiter
<1> QED
  BY <1>1, <1>3, <1>4, <1>5

\* A finished provision turns its reservation into a registered worker.
LEMMA ProvisionOkPreserves ==
  ASSUME NEW L, PoolCore(L), NEW r \in Requests, NEW w \in Workers, ProvisionOk(r, w)
  PROVE  PoolCore(L)'
<1> USE DEF PoolCore, TypeOK, ProvisionOk
<1>1. /\ IsFiniteSet(allWorkers') /\ Cardinality(allWorkers') = Cardinality(allWorkers) + 1
      /\ Cardinality(allWorkers) \in Nat
  BY CardinalityAdd
<1>2. r \in InFlight /\ InFlight' = InFlight \ {r}
  BY DEF InFlight
<1>3. Cardinality(InFlight') = Cardinality(InFlight) - 1 /\ Cardinality(InFlight') \in Nat
  <2>1. IsFiniteSet(InFlight')
    BY <1>2, InFlightFinite, CardinalityRemove
  <2> QED
    BY <1>2, <2>1, InFlightFinite, CardinalityRemove, FS_CardinalityType
<1>4. TypeOK'
  BY <1>1, <1>3 DEF Locations, Ledger
<1>5. Idle' = Idle /\ Leased' = Leased \cup {w}
  BY DEF Idle, Leased
<1>6. LeaseMatchesLocation'
  BY DEF LeaseMatchesLocation
<1>7. ExclusiveLease'
  <2>1. ASSUME NEW q \in Requests, q # r, pc'[q] = "leased" PROVE lease'[q] # w
    BY <2>1 DEF Leased
  <2>2. \A p, q \in Requests :
          pc'[p] = "leased" /\ pc'[q] = "leased" /\ lease'[p] = lease'[q] => p = q
    BY <2>1 DEF ExclusiveLease
  <2>3. Idle' \cap Leased' = {}
    BY <1>5 DEF ExclusiveLease, Ledger
  <2> QED
    BY <2>2, <2>3 DEF ExclusiveLease
<1>8. Ledger(L)'
  BY <1>3, <1>5 DEF Ledger
<1>9. CapacityBound'
  BY <1>1, CapacityAssumption DEF CapacityBound
<1>10. NoStrandedWaiter'
  BY <1>1, <1>5, CapacityAssumption DEF NoStrandedWaiter, HasCapacity
<1> QED
  BY <1>4, <1>6, <1>7, <1>8, <1>9, <1>10

\* A failed or cancelled provision gives its reservation back.
LEMMA ProvisionFailPreserves ==
  ASSUME NEW L, PoolCore(L), NEW r \in Requests, ProvisionFail(r)
  PROVE  PoolCore(L)'
<1>1. /\ pc \in [Requests -> Locations] /\ pc[r] = "provisioning"
      /\ pc' = NotifyAll([pc EXCEPT ![r] = "out"])
  BY DEF PoolCore, TypeOK, ProvisionFail
<1>2. /\ pc' \in [Requests -> Locations]
      /\ \A q \in Requests : /\ pc'[q] # "waiting"
                             /\ pc'[q] = "leased" <=> pc[q] = "leased"
                             /\ pc'[q] = "provisioning" <=> pc[q] = "provisioning" /\ q # r
  BY <1>1 DEF NotifyAll, Locations
<1> USE DEF PoolCore, TypeOK, ProvisionFail
<1>3. r \in InFlight /\ InFlight' = InFlight \ {r}
  BY <1>2 DEF InFlight
<1>4. Cardinality(InFlight') = Cardinality(InFlight) - 1 /\ Cardinality(InFlight') \in Nat
  <2>1. IsFiniteSet(InFlight')
    BY <1>3, InFlightFinite, CardinalityRemove
  <2> QED
    BY <1>3, <2>1, InFlightFinite, CardinalityRemove, FS_CardinalityType
<1>5. provisioningCount' = provisioningCount - 1 /\ provisioningCount' \in Nat
  BY <1>4, InFlightFinite DEF Ledger
<1>6. TypeOK'
  BY <1>2, <1>5
<1>7. Idle' = Idle /\ Leased' = Leased
  BY <1>2 DEF Idle, Leased
<1>8. LeaseMatchesLocation' /\ ExclusiveLease' /\ NoStrandedWaiter'
  BY <1>2, <1>7 DEF LeaseMatchesLocation, ExclusiveLease, NoStrandedWaiter
<1>9. Ledger(L)'
  BY <1>4, <1>5, <1>7 DEF Ledger
<1>10. CapacityBound'
  <2>1. Cardinality(allWorkers) \in Nat
    BY FS_CardinalityType
  <2> QED
    BY <1>5, <2>1, CapacityAssumption DEF CapacityBound
<1> QED
  BY <1>6, <1>8, <1>9, <1>10

\* release(): the worker moves from the lease back to the deque, once.
LEMMA ReleasePreserves ==
  ASSUME NEW L, PoolCore(L), NEW r \in Requests, Release(r)
  PROVE  PoolCore(L)'
<1> DEFINE w == lease[r]
<1>1. /\ pc \in [Requests -> Locations] /\ pc[r] = "leased"
      /\ pc' = NotifyAll([pc EXCEPT ![r] = "out"])
  BY DEF PoolCore, TypeOK, Release
<1>2. /\ pc' \in [Requests -> Locations]
      /\ \A q \in Requests : /\ pc'[q] # "waiting"
                             /\ pc'[q] = "leased" <=> pc[q] = "leased" /\ q # r
                             /\ pc'[q] = "provisioning" <=> pc[q] = "provisioning"
  BY <1>1 DEF NotifyAll, Locations
<1> USE DEF PoolCore, TypeOK, Release
<1>3. w \in Workers /\ w \in Leased /\ idleWorkers[w] = 0
  BY DEF LeaseMatchesLocation, Leased, Idle, ExclusiveLease
<1>4. TypeOK'
  <2>1. idleWorkers' \in [Workers -> Nat]
    BY <1>3
  <2>2. lease' \in [Requests -> Workers \cup {NoWorker}]
    OBVIOUS
  <2> QED
    BY <1>2, <2>1, <2>2
<1>5. InFlight' = InFlight
  BY <1>2 DEF InFlight
<1>6. Idle' = Idle \cup {w}
  BY <1>3 DEF Idle
<1>7. Leased' = Leased \ {w}
  BY <1>2 DEF Leased, ExclusiveLease
<1>8. LeaseMatchesLocation' /\ NoStrandedWaiter'
  BY <1>2 DEF LeaseMatchesLocation, NoStrandedWaiter
<1>9. ExclusiveLease'
  <2>1. \A p, q \in Requests :
          pc'[p] = "leased" /\ pc'[q] = "leased" /\ lease'[p] = lease'[q] => p = q
    BY <1>2 DEF ExclusiveLease
  <2>2. Idle' \cap Leased' = {} /\ \A v \in Workers : idleWorkers'[v] <= 1
    BY <1>3, <1>6, <1>7 DEF ExclusiveLease
  <2> QED
    BY <2>1, <2>2 DEF ExclusiveLease
<1>10. Ledger(L)'
  BY <1>3, <1>5, <1>6, <1>7 DEF Ledger
<1>11. CapacityBound'
  BY DEF CapacityBound
<1> QED
  BY <1>4, <1>8, <1>9, <1>10, <1>11

\* evict(): the worker leaves the ledger and its holder at once.
LEMMA EvictPreserves ==
  ASSUME NEW L, PoolCore(L), NEW r \in Requests, Evict(r)
  PROVE  PoolCore(L)'
<1> DEFINE w == lease[r]
<1>1. /\ pc \in [Requests -> Locations] /\ pc[r] = "leased"
      /\ pc' = NotifyAll([pc EXCEPT ![r] = "out"])
  BY DEF PoolCore, TypeOK, Evict
<1>2. /\ pc' \in [Requests -> Locations]
      /\ \A q \in Requests : /\ pc'[q] # "waiting"
                             /\ pc'[q] = "leased" <=> pc[q] = "leased" /\ q # r
                             /\ pc'[q] = "provisioning" <=> pc[q] = "provisioning"
  BY <1>1 DEF NotifyAll, Locations
<1> USE DEF PoolCore, TypeOK, Evict
<1>3. w \in Workers /\ w \in Leased /\ idleWorkers[w] = 0
  BY DEF LeaseMatchesLocation, Leased, Idle, ExclusiveLease
<1>4. /\ IsFiniteSet(allWorkers') /\ Cardinality(allWorkers') <= Cardinality(allWorkers)
      /\ Cardinality(allWorkers') \in Nat /\ Cardinality(allWorkers) \in Nat
  BY CardinalityDiff
<1>5. TypeOK'
  BY <1>2, <1>3, <1>4
<1>6. InFlight' = InFlight
  BY <1>2 DEF InFlight
<1>7. Idle' = Idle /\ idleWorkers' = idleWorkers
  BY <1>3 DEF Idle
<1>8. Leased' = Leased \ {w}
  BY <1>2 DEF Leased, ExclusiveLease
<1>9. LeaseMatchesLocation' /\ NoStrandedWaiter'
  BY <1>2 DEF LeaseMatchesLocation, NoStrandedWaiter
<1>10. ExclusiveLease'
  BY <1>2, <1>7, <1>8 DEF ExclusiveLease
<1>11. Ledger(L)'
  BY <1>3, <1>6, <1>7, <1>8 DEF Ledger, ExclusiveLease
<1>12. CapacityBound'
  BY <1>4, CapacityAssumption DEF CapacityBound
<1> QED
  BY <1>5, <1>9, <1>10, <1>11, <1>12

\* prune_idle_workers(): only queued workers go, so no lease is touched.
LEMMA PrunePreserves ==
  ASSUME NEW L, PoolCore(L), NEW expired \in SUBSET Idle, Prune(expired)
  PROVE  PoolCore(L)'
<1> USE DEF PoolCore, TypeOK, Prune
<1>1. /\ pc' \in [Requests -> Locations]
      /\ \A r \in Requests : /\ pc'[r] # "waiting"
                             /\ pc'[r] = "leased" <=> pc[r] = "leased"
                             /\ pc'[r] = "provisioning" <=> pc[r] = "provisioning"
  BY NotifyAllFacts
<1>2. /\ IsFiniteSet(allWorkers') /\ Cardinality(allWorkers') <= Cardinality(allWorkers)
      /\ Cardinality(allWorkers') \in Nat /\ Cardinality(allWorkers) \in Nat
  BY CardinalityDiff
<1>3. TypeOK'
  BY <1>1, <1>2
<1>4. Leased' = Leased /\ InFlight' = InFlight
  BY <1>1 DEF Leased, InFlight
<1>5. Idle' = Idle \ expired
  BY DEF Idle
<1>6. LeaseMatchesLocation' /\ NoStrandedWaiter'
  BY <1>1 DEF LeaseMatchesLocation, NoStrandedWaiter
<1>7. ExclusiveLease'
  BY <1>1, <1>4, <1>5 DEF ExclusiveLease
<1>8. Ledger(L)'
  BY <1>4, <1>5 DEF Ledger, ExclusiveLease
<1>9. CapacityBound'
  BY <1>2, CapacityAssumption DEF CapacityBound
<1> QED
  BY <1>3, <1>6, <1>7, <1>8, <1>9

\* drain(): with no request in the pool nothing is in flight or leased.
LEMMA DrainPreserves ==
  ASSUME NEW L, PoolCore(L), Drain
  PROVE  PoolCore({})'
<1> USE DEF PoolCore, TypeOK, Drain
<1>1. pc' \in [Requests -> Locations] /\ \A r \in Requests : pc'[r] = "out"
  BY NotifyAllFacts
<1>2. IsFiniteSet({}) /\ Cardinality({}) = 0
  BY FS_EmptySet
<1>3. TypeOK'
  BY <1>1, <1>2
<1>4. Leased' = {} /\ InFlight' = {} /\ Idle' = {}
  BY <1>1 DEF Leased, InFlight, Idle
<1>5. LeaseMatchesLocation' /\ NoStrandedWaiter'
  BY <1>1 DEF LeaseMatchesLocation, NoStrandedWaiter
<1>6. ExclusiveLease'
  BY <1>1, <1>4 DEF ExclusiveLease
<1>7. Ledger({})'
  BY <1>2, <1>4 DEF Ledger
<1>8. CapacityBound'
  BY <1>2, CapacityAssumption DEF CapacityBound
<1> QED
  BY <1>3, <1>5, <1>6, <1>7, <1>8

\* A step that leaves the pool's own variables alone preserves the invariant.
LEMMA FramePreserves ==
  ASSUME NEW L, PoolCore(L), phase' \in {"startup", "serving", "closed"},
         UNCHANGED <<idleWorkers, allWorkers, provisioningCount, pc, lease>>
  PROVE  PoolCore(L)'
<1> USE DEF PoolCore
<1>1. TypeOK'
  BY DEF TypeOK
<1>2. Idle' = Idle /\ Leased' = Leased /\ InFlight' = InFlight /\ HasCapacity' = HasCapacity
  BY DEF Idle, Leased, InFlight, HasCapacity
<1>3. LeaseMatchesLocation' /\ ExclusiveLease' /\ NoStrandedWaiter'
  BY <1>2 DEF LeaseMatchesLocation, ExclusiveLease, NoStrandedWaiter
<1>4. Ledger(L)' /\ CapacityBound'
  BY <1>2 DEF Ledger, CapacityBound
<1> QED
  BY <1>1, <1>3, <1>4

\* Every step of the pool preserves the invariant: one step per action.
LEMMA PoolStep == PoolInv /\ [Next]_vars => PoolInv'
<1> SUFFICES ASSUME PoolInv, [Next]_vars PROVE PoolCore({})'
  BY NothingLost
<1>0. PoolCore({})
  BY NothingLost
<1>1. ASSUME NEW w \in Workers, Adopt(w) PROVE PoolCore({})'
  BY <1>0, <1>1, AdoptPreserves
<1>2. CASE StartServing
  BY <1>0, <1>2, FramePreserves DEF StartServing
<1>3. ASSUME NEW r \in Requests, TakeIdle(r) PROVE PoolCore({})'
  BY <1>0, <1>3, TakeIdlePreserves
<1>4. ASSUME NEW r \in Requests, Reserve(r) PROVE PoolCore({})'
  BY <1>0, <1>4, ReservePreserves
<1>5. ASSUME NEW r \in Requests, Wait(r) PROVE PoolCore({})'
  BY <1>0, <1>5, WaitPreserves
<1>6. ASSUME NEW r \in Requests, GiveUp(r) PROVE PoolCore({})'
  BY <1>0, <1>6, GiveUpPreserves
<1>7. ASSUME NEW r \in Requests, NEW w \in Workers, ProvisionOk(r, w) PROVE PoolCore({})'
  BY <1>0, <1>7, ProvisionOkPreserves
<1>8. ASSUME NEW r \in Requests, ProvisionFail(r) PROVE PoolCore({})'
  BY <1>0, <1>8, ProvisionFailPreserves
<1>9. ASSUME NEW r \in Requests, Release(r) PROVE PoolCore({})'
  BY <1>0, <1>9, ReleasePreserves
<1>10. ASSUME NEW r \in Requests, Evict(r) PROVE PoolCore({})'
  BY <1>0, <1>10, EvictPreserves
<1>11. ASSUME NEW expired \in SUBSET Idle, Prune(expired) PROVE PoolCore({})'
  BY <1>0, <1>11, PrunePreserves
<1>12. CASE Drain
  BY <1>0, <1>12, DrainPreserves
<1>13. CASE Closed \/ UNCHANGED vars
  BY <1>0, <1>13, FramePreserves DEF Closed, vars, PoolCore, TypeOK
<1> QED
  BY <1>1, <1>2, <1>3, <1>4, <1>5, <1>6, <1>7, <1>8, <1>9, <1>10, <1>11, <1>12, <1>13
  DEF Next

----------------------------------------------------------------------------
(* Theorems *)

\* All the invariants hold in every reachable state of the pool.
THEOREM PoolInvariant == Spec => []PoolInv
  BY PoolInit, PoolStep, PTL DEF Spec

\* Type correctness of the pool.
THEOREM TypeCorrect == Spec => []TypeOK
  BY PoolInvariant, PTL DEF PoolInv

\* max_capacity bounds registered plus in-flight containers.
THEOREM CapacityIsBounded == Spec => []CapacityBound
  BY PoolInvariant, PTL DEF PoolInv

\* A worker serves one request at a time.
THEOREM LeasesAreExclusive == Spec => []ExclusiveLease
  BY PoolInvariant, PTL DEF PoolInv

\* The ledger and the counter are exact, so no error path leaks capacity.
THEOREM LedgerIsExact == Spec => []LedgerExact
  BY PoolInvariant, PTL DEF PoolInv

\* No task sleeps while the pool could serve it.
THEOREM NoWaiterIsStranded == Spec => []NoStrandedWaiter
  BY PoolInvariant, PTL DEF PoolInv

----------------------------------------------------------------------------
(* Refinement: the pool implements WorkerLease, its ledger the membership. *)

\* The abstract specification's held workers are the pool's leased ones.
LEMMA HeldIsLeased == PoolInv => Lease!Held = Leased
  BY NoWorkerAssumption DEF PoolInv, LeaseMatchesLocation, Lease!Held, Leased

\* WorkerLease counts with its own instance of the standard Cardinality.
LEMMA SameCardinality == \A S : Lease!Cardinality(S) = Cardinality(S)
  BY Zenon DEF Lease!Cardinality, Cardinality

\* Every step of the pool is a step of WorkerLease or leaves its state alone:
\* waiting, waking and provisioning are invisible to the abstract lease.
LEMMA PoolStepRefines ==
  ASSUME PoolInv, [Next]_vars
  PROVE  [Lease!Next]_(Lease!vars)
<1> USE DEF PoolInv
<1>1. Lease!Held = Leased
  BY HeldIsLeased
<1>2. ASSUME NEW w \in Workers, Adopt(w) PROVE Lease!Next
  <2>1. Cardinality(allWorkers) \in Nat /\ Cardinality(allWorkers) < MaxCapacity
    BY <1>2, FS_CardinalityType, CapacityAssumption DEF Adopt, HasCapacity, TypeOK
  <2>2. Lease!Admit(w)
    BY <1>2, <2>1, SameCardinality DEF Adopt, Lease!Admit
  <2> QED
    BY <2>2 DEF Lease!Next
<1>3. ASSUME NEW r \in Requests, TakeIdle(r) PROVE Lease!Next
  <2>1. PICK w \in Idle : lease' = [lease EXCEPT ![r] = w]
    BY <1>3 DEF TakeIdle
  <2>2. w \in Workers /\ w \in allWorkers \ Leased
    BY <2>1 DEF Idle, LedgerExact, ExclusiveLease
  <2>3. Lease!GrantMember(r, w)
    BY <1>1, <1>3, <2>1, <2>2
    DEF TakeIdle, AtLoopHead, LeaseMatchesLocation, Lease!GrantMember
  <2> QED
    BY <2>2, <2>3 DEF Lease!Next
<1>4. ASSUME NEW r \in Requests, NEW w \in Workers, ProvisionOk(r, w) PROVE Lease!Next
  <2>1. Cardinality(InFlight) >= 1
    <3>1. r \in InFlight
      BY <1>4 DEF ProvisionOk, InFlight
    <3>2. IsFiniteSet(InFlight \ {r})
      BY <3>1, InFlightFinite, CardinalityRemove
    <3> QED
      BY <3>1, <3>2, InFlightFinite, CardinalityRemove, FS_CardinalityType
  <2>2. Cardinality(allWorkers) \in Nat /\ Cardinality(allWorkers) < MaxCapacity
    BY <2>1, FS_CardinalityType, CapacityAssumption
    DEF CapacityBound, LedgerExact, TypeOK
  <2>3. Lease!GrantNew(r, w)
    BY <1>1, <1>4, <2>2, SameCardinality
    DEF ProvisionOk, LeaseMatchesLocation, Lease!GrantNew
  <2> QED
    BY <2>3 DEF Lease!Next
<1>5. ASSUME NEW r \in Requests, Release(r) PROVE Lease!Next
  <2>1. Lease!Return(r)
    BY <1>5, NoWorkerAssumption DEF Release, LeaseMatchesLocation, Lease!Return
  <2> QED
    BY <2>1 DEF Lease!Next
<1>6. ASSUME NEW r \in Requests, Evict(r) PROVE Lease!Next
  <2>1. Lease!Discard(r)
    BY <1>6, NoWorkerAssumption DEF Evict, LeaseMatchesLocation, Lease!Discard
  <2> QED
    BY <2>1 DEF Lease!Next
<1>7. ASSUME NEW expired \in SUBSET Idle, Prune(expired) PROVE Lease!Next
  <2>1. expired \in SUBSET (allWorkers \ Leased)
    BY <1>7 DEF LedgerExact, ExclusiveLease
  <2>2. Lease!Withdraw(expired)
    BY <1>7 DEF Prune, Lease!Withdraw
  <2> QED
    BY <1>1, <2>1, <2>2 DEF Lease!Next
<1>8. CASE Drain
  <2>1. Leased = {}
    BY <1>8 DEF Drain, Leased
  <2>2. CASE allWorkers = {}
    BY <1>8, <2>2 DEF Drain, Lease!vars
  <2>3. CASE allWorkers # {}
    <3>1. Lease!Withdraw(allWorkers)
      BY <1>8, <2>3 DEF Drain, Lease!Withdraw
    <3> QED
      BY <1>1, <2>1, <3>1 DEF Lease!Next
  <2> QED
    BY <2>2, <2>3
<1>9. CASE StartServing \/ Closed \/ UNCHANGED vars
  BY <1>9 DEF StartServing, Closed, vars, Lease!vars
<1>10. ASSUME NEW r \in Requests, Reserve(r) \/ Wait(r) \/ GiveUp(r) \/ ProvisionFail(r)
       PROVE  UNCHANGED Lease!vars
  BY <1>10 DEF Reserve, Wait, GiveUp, ProvisionFail, Lease!vars
<1> QED
  BY <1>2, <1>3, <1>4, <1>5, <1>6, <1>7, <1>8, <1>9, <1>10 DEF Next

\* The pool keeps the promise of WorkerLease.
THEOREM PoolImplementsLease == Spec => ImplementsWorkerLease
<1>1. Init => Lease!Init
  BY DEF Init, Lease!Init
<1>2. PoolInv /\ [Next]_vars => [Lease!Next]_(Lease!vars)
  BY PoolStepRefines
<1> QED
  BY <1>1, <1>2, PoolInvariant, PTL DEF Spec, ImplementsWorkerLease, Lease!Spec

=============================================================================
