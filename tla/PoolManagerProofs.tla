------------------------- MODULE PoolManagerProofs -------------------------
(***************************************************************************)
(* No clean-up ever deletes a container that a request uses, is about to   *)
(* use, or may be given: for every number of requests and containers and   *)
(* every grace period that exceeds the time a provision call may take.     *)
(*                                                                         *)
(* The pool's own invariant carries over, since every step is a step of    *)
(* the pool, leaves it alone or starts it anew.  The rest is the argument  *)
(* about the janitor's stale reads: what was past the grace period when it *)
(* read the clock is not being provisioned (Separate), never will be again *)
(* (names are new), and what it is going to delete was unknown afterwards. *)
(***************************************************************************)
EXTENDS PoolManager, ContainerPoolProofs

\* A provision call in flight owns its container alone, and not for long.
CreatedOwned ==
  /\ \A r \in Requests : created[r] # NoWorker => pc[r] = "provisioning"
  /\ \A r, q \in Requests : created[r] # NoWorker /\ created[r] = created[q] => r = q
  /\ \A r \in Requests : created[r] # NoWorker => age[created[r]] <= ProvisionBound

\* Containers being provisioned are apart from the registered ones and from
\* those that the janitor found old, whose listing is a part of the old ones.
Separate == /\ Created \cap allWorkers = {}
            /\ Created \cap old = {}
            /\ job = "decide" => targets \subseteq old

\* Until start-up is over the pool is empty and nobody uses it.
StartupQuiet ==
  /\ job \in {"boot", "boot_delete"} => phase = "startup"
  /\ phase = "startup" => allWorkers = {} /\ \A r \in Requests : pc[r] = "out"

ManagerInv == /\ PoolInv
              /\ ManagerTypeOK
              /\ CreatedOwned
              /\ Separate
              /\ StartupQuiet
              /\ KnownWorkersExist
              /\ StartingContainersExist
              /\ TargetsUnreachable

----------------------------------------------------------------------------
(* The pool inside the manager *)

\* Every step of the manager is a step of the pool, or starts the pool anew.
LEMMA ManagerStepIsPoolStep ==
  ASSUME ManagerTypeOK, [ManagerNext]_allVars
  PROVE  [Next]_vars \/ Init'
<1>1. ASSUME NEW r \in Requests, PoolOnly(r) PROVE Next
  BY <1>1 DEF PoolOnly, Next
<1>2. ASSUME NEW r \in Requests, ProvisionReady(r) PROVE Next
  <2>1. created[r] \in Workers
    BY <1>2 DEF ProvisionReady, ManagerTypeOK
  <2> QED
    BY <1>2, <2>1 DEF ProvisionReady, Next
<1>3. ASSUME NEW r \in Requests, ProvisionError(r) PROVE Next
  BY <1>3 DEF ProvisionError, Next
<1>4. ASSUME NEW expired \in SUBSET Idle, PruneAll(expired) PROVE Next
  BY <1>4 DEF PruneAll, Next
<1>5. CASE CleanupDone
  BY <1>5 DEF CleanupDone, Next
<1>6. CASE Shutdown
  BY <1>6 DEF Shutdown, Next
<1>7. CASE Restart
  BY <1>7 DEF Restart, Init
<1>8. ASSUME NEW r \in Requests, NEW w \in Workers, EnsureContainer(r, w)
      PROVE  UNCHANGED vars
  BY <1>8 DEF EnsureContainer
<1>9. ASSUME NEW w \in Workers, AbandonedEnsure(w) \/ Delete(w) \/ DeleteError(w)
      PROVE  UNCHANGED vars
  BY <1>9 DEF AbandonedEnsure, Delete, DeleteError
<1>10. CASE CleanupList \/ PruneNothing \/ PruneDone \/ ListContainers \/ ListError
            \/ DecideOrphans \/ ReconcileDone \/ ShutdownDone \/ Tick
  BY <1>10 DEF CleanupList, PruneNothing, PruneDone, ListContainers, ListError,
               DecideOrphans, ReconcileDone, ShutdownDone, Tick
<1>11. CASE UNCHANGED allVars
  BY <1>11 DEF allVars
<1> QED
  BY <1>1, <1>2, <1>3, <1>4, <1>5, <1>6, <1>7, <1>8, <1>9, <1>10, <1>11 DEF ManagerNext

\* So the pool keeps its invariant, across crashes too.
LEMMA PoolInvCarriesOver ==
  PoolInv /\ ManagerTypeOK /\ [ManagerNext]_allVars => PoolInv'
<1>1. Init' => PoolInv'
  BY PoolInit, PTL
<1>2. PoolInv /\ [Next]_vars => PoolInv'
  BY PoolStep
<1> QED
  BY <1>1, <1>2, ManagerStepIsPoolStep

----------------------------------------------------------------------------
(* The manager's own invariant: what each kind of step needs. *)

OwnInv == ManagerTypeOK /\ CreatedOwned /\ Separate /\ StartupQuiet
          /\ KnownWorkersExist /\ StartingContainersExist /\ TargetsUnreachable

\* Requests that only take, wait for, give back or drop a registered worker.
LEMMA PoolOnlyPreserves ==
  ASSUME PoolInv, PoolInv', OwnInv, NEW r \in Requests, PoolOnly(r)
  PROVE  OwnInv'
<1> USE DEF OwnInv
<1>1. UNCHANGED managerVars /\ Created' = Created
  BY DEF PoolOnly, managerVars, Created
<1>2. allWorkers' \subseteq allWorkers
  BY DEF PoolOnly, TakeIdle, Reserve, Wait, GiveUp, Release, Evict
<1>3. \A q \in Requests : pc[q] = "provisioning" => pc'[q] = "provisioning"
  BY DEF PoolOnly, TakeIdle, Reserve, Wait, GiveUp, Release, Evict, AtLoopHead,
         NotifyAll, PoolInv, TypeOK
<1>4. phase' = phase /\ (phase = "startup" => pc' = pc /\ allWorkers' = allWorkers)
  BY DEF PoolOnly, TakeIdle, Reserve, Wait, GiveUp, Release, Evict, AtLoopHead,
         StartupQuiet
<1>5. ManagerTypeOK'
  BY <1>1 DEF ManagerTypeOK, managerVars
<1>6. CreatedOwned' /\ Separate' /\ StartingContainersExist' /\ KnownWorkersExist'
  BY <1>1, <1>2, <1>3 DEF CreatedOwned, Separate, StartingContainersExist,
                          KnownWorkersExist, managerVars
<1>7. StartupQuiet'
  BY <1>1, <1>4 DEF StartupQuiet, managerVars
<1>8. TargetsUnreachable'
  <2>1. Leased' \subseteq allWorkers'
    BY DEF PoolInv, LedgerExact
  <2> QED
    BY <1>1, <1>2, <2>1 DEF TargetsUnreachable, Known, managerVars
<1> QED
  BY <1>5, <1>6, <1>7, <1>8

\* The agent creates a container for a provision call: its name is new.
LEMMA EnsurePreserves ==
  ASSUME PoolInv, OwnInv, NEW r \in Requests, NEW w \in Workers, EnsureContainer(r, w)
  PROVE  OwnInv'
<1> USE DEF OwnInv, EnsureContainer, Fresh
<1>1. UNCHANGED <<phase, idleWorkers, allWorkers, provisioningCount, pc, lease>>
  BY DEF vars
<1>2. Leased' = Leased
  BY <1>1 DEF Leased
<1>3. created' \in [Requests -> Workers \cup {NoWorker}]
      /\ \A q \in Requests : created'[q] = IF q = r THEN w ELSE created[q]
  BY DEF ManagerTypeOK
<1>4. Created' = Created \cup {w}
  BY <1>3, NoWorkerAssumption DEF Created, ManagerTypeOK
<1>5. age' \in [Workers -> 0..GracePeriod]
      /\ \A v \in Workers : age'[v] = IF v = w THEN 0 ELSE age[v]
  BY GraceAssumption DEF ManagerTypeOK
<1>6. ManagerTypeOK'
  BY <1>3, <1>5 DEF ManagerTypeOK
<1>7. CreatedOwned'
  <2>1. \A q \in Requests : created[q] # w
    BY NoWorkerAssumption DEF StartingContainersExist, Created
  <2>2. \A q \in Requests : created'[q] # NoWorker => pc'[q] = "provisioning"
    BY <1>1, <1>3 DEF CreatedOwned
  <2>3. \A p, q \in Requests : created'[p] # NoWorker /\ created'[p] = created'[q] => p = q
    BY <1>3, <2>1 DEF CreatedOwned
  <2>4. \A q \in Requests : created'[q] # NoWorker => age'[created'[q]] <= ProvisionBound
    BY <1>3, <1>5, <2>1, GraceAssumption DEF CreatedOwned, ManagerTypeOK
  <2> QED
    BY <2>2, <2>3, <2>4 DEF CreatedOwned
<1>8. Separate'
  BY <1>1, <1>4 DEF Separate
<1>9. StartupQuiet' /\ KnownWorkersExist' /\ StartingContainersExist'
  BY <1>1, <1>4 DEF StartupQuiet, KnownWorkersExist, StartingContainersExist
<1>10. TargetsUnreachable'
  BY <1>1, <1>2, <1>4 DEF TargetsUnreachable, Known
<1> QED
  BY <1>6, <1>7, <1>8, <1>9, <1>10

\* A container made ready passes from the provision call to the ledger.
LEMMA ReadyPreserves ==
  ASSUME PoolInv, PoolInv', OwnInv, NEW r \in Requests, ProvisionReady(r)
  PROVE  OwnInv'
<1> DEFINE w == created[r]
<1> USE DEF OwnInv, ProvisionReady
<1>1. w \in Workers /\ w # NoWorker /\ w \in Created /\ w \in exists
  BY NoWorkerAssumption DEF ManagerTypeOK, Created
<1>2. /\ phase' = phase /\ allWorkers' = allWorkers \cup {w}
      /\ pc[r] = "provisioning" /\ pc' = [pc EXCEPT ![r] = "leased"]
  BY DEF ProvisionOk
<1>3. created' \in [Requests -> Workers \cup {NoWorker}]
      /\ \A q \in Requests : created'[q] = IF q = r THEN NoWorker ELSE created[q]
  BY DEF ManagerTypeOK
<1>4. Created' = Created \ {w}
  BY <1>1, <1>3 DEF Created, CreatedOwned
<1>5. ManagerTypeOK'
  BY <1>3 DEF ManagerTypeOK
<1>6. CreatedOwned'
  BY <1>2, <1>3 DEF CreatedOwned, PoolInv, TypeOK
<1>7. Separate'
  BY <1>2, <1>4 DEF Separate
<1>8. StartupQuiet' /\ KnownWorkersExist' /\ StartingContainersExist'
  BY <1>1, <1>2, <1>4 DEF StartupQuiet, KnownWorkersExist, StartingContainersExist
<1>9. TargetsUnreachable'
  <2>1. Leased' \subseteq allWorkers'
    BY DEF PoolInv, LedgerExact
  <2> QED
    BY <1>1, <1>2, <1>4, <2>1 DEF TargetsUnreachable, Known
<1> QED
  BY <1>5, <1>6, <1>7, <1>8, <1>9

\* A failed provision call leaves its container to the janitor.
LEMMA ErrorPreserves ==
  ASSUME PoolInv, PoolInv', OwnInv, NEW r \in Requests, ProvisionError(r)
  PROVE  OwnInv'
<1> USE DEF OwnInv, ProvisionError
<1>1. /\ phase' = phase /\ allWorkers' = allWorkers /\ pc[r] = "provisioning"
      /\ \A q \in Requests : q # r /\ pc[q] = "provisioning" => pc'[q] = "provisioning"
  BY DEF ProvisionFail, NotifyAll, PoolInv, TypeOK
<1>2. created' \in [Requests -> Workers \cup {NoWorker}]
      /\ \A q \in Requests : created'[q] = IF q = r THEN NoWorker ELSE created[q]
  BY DEF ManagerTypeOK
<1>3. Created' \subseteq Created
  BY <1>2 DEF Created
<1>4. abandoned' \in 0..MaxAbandoned
  BY BoundsAssumption DEF ManagerTypeOK
<1>5. ManagerTypeOK'
  BY <1>2, <1>4 DEF ManagerTypeOK
<1>6. CreatedOwned'
  BY <1>1, <1>2 DEF CreatedOwned
<1>7. Separate' /\ KnownWorkersExist' /\ StartingContainersExist'
  BY <1>1, <1>3 DEF Separate, KnownWorkersExist, StartingContainersExist
<1>8. StartupQuiet'
  BY <1>1 DEF StartupQuiet
<1>9. TargetsUnreachable'
  <2>1. Leased' \subseteq allWorkers'
    BY DEF PoolInv, LedgerExact
  <2> QED
    BY <1>1, <1>3, <2>1 DEF TargetsUnreachable, Known
<1> QED
  BY <1>5, <1>6, <1>7, <1>8, <1>9

\* An Ensure call whose caller has gone creates a container with a new name.
LEMMA AbandonedPreserves ==
  ASSUME OwnInv, NEW w \in Workers, AbandonedEnsure(w)
  PROVE  OwnInv'
<1> USE DEF OwnInv, AbandonedEnsure, Fresh
<1>1. UNCHANGED <<phase, idleWorkers, allWorkers, provisioningCount, pc, lease>>
  BY DEF vars
<1>2. Leased' = Leased /\ Created' = Created /\ w \notin Created
  BY <1>1 DEF Leased, Created, StartingContainersExist
<1>3. age' \in [Workers -> 0..GracePeriod]
      /\ \A v \in Workers : age'[v] = IF v = w THEN 0 ELSE age[v]
  BY GraceAssumption DEF ManagerTypeOK
<1>4. ManagerTypeOK'
  BY <1>3, BoundsAssumption DEF ManagerTypeOK
<1>5. CreatedOwned'
  BY <1>1, <1>2, <1>3, GraceAssumption DEF CreatedOwned, Created, ManagerTypeOK
<1>6. Separate' /\ StartupQuiet' /\ KnownWorkersExist' /\ StartingContainersExist'
  BY <1>1, <1>2 DEF Separate, StartupQuiet, KnownWorkersExist, StartingContainersExist
<1>7. TargetsUnreachable'
  BY <1>1, <1>2 DEF TargetsUnreachable, Known
<1> QED
  BY <1>4, <1>5, <1>6, <1>7

\* A deletion, successful or not, concerns a container that is out of reach.
LEMMA DeletePreserves ==
  ASSUME OwnInv, NEW w \in Workers, Delete(w) \/ DeleteError(w)
  PROVE  OwnInv'
<1> USE DEF OwnInv
<1>1. /\ UNCHANGED <<phase, idleWorkers, allWorkers, provisioningCount, pc, lease>>
      /\ UNCHANGED <<age, created, abandoned, job, old, crashes>>
      /\ targets' = targets \ {w} /\ exists \ {w} \subseteq exists' /\ exists' \subseteq exists
      /\ job # "decide" /\ w \in targets
  BY DEF Delete, DeleteError, vars
<1>2. Leased' = Leased /\ Created' = Created
  BY <1>1 DEF Leased, Created
<1>3. w \notin allWorkers /\ w \notin Created
  BY <1>1 DEF TargetsUnreachable, Known
<1>4. ManagerTypeOK'
  BY <1>1 DEF ManagerTypeOK
<1>5. CreatedOwned' /\ Separate' /\ StartupQuiet'
  BY <1>1, <1>2 DEF CreatedOwned, Separate, StartupQuiet
<1>6. KnownWorkersExist' /\ StartingContainersExist'
  BY <1>1, <1>2, <1>3 DEF KnownWorkersExist, StartingContainersExist
<1>7. TargetsUnreachable'
  BY <1>1, <1>2 DEF TargetsUnreachable, Known
<1> QED
  BY <1>4, <1>5, <1>6, <1>7

\* Steps that only move the deleting task, with new targets and old containers.
\* The first two hypotheses are what the task has to establish.
LEMMA JobPreserves ==
  ASSUME OwnInv,
         UNCHANGED <<vars, exists, age, created, abandoned, crashes>>,
         job' \in Jobs, targets' \in SUBSET Workers, old' \in SUBSET Workers,
         job' # "decide" => targets' \cap (Known \cup Leased) = {},
         job' = "decide" => targets' \subseteq old',
         old' \cap Created = {},
         job' \in {"boot", "boot_delete"} => phase = "startup"
  PROVE  OwnInv'
<1> USE DEF OwnInv
<1>1. UNCHANGED <<phase, idleWorkers, allWorkers, provisioningCount, pc, lease>>
  BY DEF vars
<1>2. Leased' = Leased /\ Created' = Created /\ Known' = Known
  BY <1>1 DEF Leased, Created, Known
<1>3. ManagerTypeOK'
  BY DEF ManagerTypeOK
<1>4. CreatedOwned' /\ Separate' /\ StartupQuiet'
  BY <1>1, <1>2 DEF CreatedOwned, Separate, StartupQuiet
<1>5. KnownWorkersExist' /\ StartingContainersExist' /\ TargetsUnreachable'
  BY <1>1, <1>2 DEF KnownWorkersExist, StartingContainersExist, TargetsUnreachable
<1> QED
  BY <1>3, <1>4, <1>5

\* The start-up clean-up lists everything, at a time when nothing is in use.
LEMMA CleanupPreserves ==
  ASSUME PoolInv, OwnInv, CleanupList
  PROVE  OwnInv'
<1> USE DEF OwnInv, CleanupList
<1>1. phase = "startup" /\ allWorkers = {} /\ \A r \in Requests : pc[r] = "out"
  BY DEF StartupQuiet
<1>2. Leased = {} /\ Created = {}
  BY <1>1 DEF Leased, Created, CreatedOwned
<1>3. targets' \in SUBSET Workers
  BY DEF ManagerTypeOK
<1>4. targets' \cap (Known \cup Leased) = {}
  BY <1>1, <1>2 DEF Known
<1>5. job' \in Jobs /\ old' \in SUBSET Workers
  BY DEF Jobs, ManagerTypeOK
<1> QED
  BY <1>1, <1>2, <1>3, <1>4, <1>5, JobPreserves

\* Start-up ends.
LEMMA CleanupDonePreserves ==
  ASSUME OwnInv, CleanupDone
  PROVE  OwnInv'
<1> USE DEF OwnInv, CleanupDone, StartServing
<1>1. Leased' = Leased /\ Created' = Created
  BY DEF Leased, Created
<1>2. ManagerTypeOK' /\ CreatedOwned' /\ StartupQuiet'
  BY DEF ManagerTypeOK, Jobs, CreatedOwned, StartupQuiet
<1>3. Separate' /\ KnownWorkersExist' /\ StartingContainersExist' /\ TargetsUnreachable'
  BY <1>1 DEF Separate, KnownWorkersExist, StartingContainersExist, TargetsUnreachable
<1> QED
  BY <1>2, <1>3

\* Pruned workers leave the pool before the first of them is deleted.
LEMMA PruneAllPreserves ==
  ASSUME PoolInv, OwnInv, NEW expired \in SUBSET Idle, PruneAll(expired)
  PROVE  OwnInv'
<1> USE DEF OwnInv, PruneAll
<1>1. /\ phase' = phase /\ phase = "serving" /\ lease' = lease
      /\ allWorkers' = allWorkers \ expired
      /\ \A r \in Requests : /\ pc[r] = "provisioning" => pc'[r] = "provisioning"
                             /\ pc'[r] = "leased" <=> pc[r] = "leased"
  BY DEF Prune, NotifyAll, PoolInv, TypeOK
<1>2. Leased' = Leased /\ Created' = Created
  BY <1>1 DEF Leased, Created
<1>3. expired \cap Leased = {} /\ expired \subseteq allWorkers /\ expired \in SUBSET Workers
  BY DEF PoolInv, ExclusiveLease, LedgerExact, Idle
<1>4. ManagerTypeOK' /\ StartupQuiet'
  BY <1>1, <1>3 DEF ManagerTypeOK, Jobs, StartupQuiet
<1>5. CreatedOwned' /\ Separate' /\ KnownWorkersExist' /\ StartingContainersExist'
  BY <1>1, <1>2 DEF CreatedOwned, Separate, KnownWorkersExist, StartingContainersExist
<1>6. TargetsUnreachable'
  BY <1>1, <1>2, <1>3 DEF TargetsUnreachable, Known, Separate
<1> QED
  BY <1>4, <1>5, <1>6

\* A container in the hands of a provision call is younger than the grace
\* period, so none is old when reconcile_orphans() reads the clock.
LEMMA ReconcileStartPreserves ==
  ASSUME OwnInv, PruneNothing \/ PruneDone
  PROVE  OwnInv'
<1> USE DEF OwnInv
<1>1. /\ UNCHANGED <<vars, exists, age, created, abandoned, targets, crashes>>
      /\ job' = "list" /\ old' = {w \in exists : age[w] >= GracePeriod} /\ job # "decide"
  BY DEF PruneNothing, PruneDone, ReconcileStart
<1>2. old' \cap Created = {}
  <2>1. ASSUME NEW w \in Created PROVE ~(age[w] >= GracePeriod)
    <3>1. PICK r \in Requests : w = created[r] /\ w # NoWorker
      BY <2>1 DEF Created
    <3>2. w \in Workers /\ age[w] <= ProvisionBound /\ age[w] \in 0..GracePeriod
      BY <3>1 DEF CreatedOwned, ManagerTypeOK
    <3> QED
      BY <3>2, GraceAssumption
  <2> QED
    BY <1>1, <2>1
<1>3. targets' \cap (Known \cup Leased) = {} /\ targets' \in SUBSET Workers
  BY <1>1 DEF TargetsUnreachable, ManagerTypeOK
<1>4. job' \in Jobs /\ old' \in SUBSET Workers
  BY <1>1 DEF Jobs, ManagerTypeOK
<1> QED
  BY <1>1, <1>2, <1>3, <1>4, JobPreserves

\* Listing, deciding and the ends of the loops.
LEMMA RoundPreserves ==
  ASSUME PoolInv, OwnInv,
         ListContainers \/ ListError \/ DecideOrphans \/ ReconcileDone \/ ShutdownDone
  PROVE  OwnInv'
<1> USE DEF OwnInv
<1>1. CASE ListContainers
  <2>1. targets' \subseteq old' /\ targets' \in SUBSET Workers /\ old' \in SUBSET Workers
        /\ job' \in Jobs /\ old' \cap Created = {} /\ job' = "decide"
    BY <1>1 DEF ListContainers, ManagerTypeOK, Jobs, Separate
  <2> QED
    BY <1>1, <2>1, JobPreserves DEF ListContainers
<1>2. CASE ListError
  <2>1. targets' \cap (Known \cup Leased) = {} /\ targets' \in SUBSET Workers
        /\ old' = {} /\ job' = "sleep" /\ job' \in Jobs
    BY <1>2 DEF ListError, ManagerTypeOK, Jobs, TargetsUnreachable
  <2> QED
    BY <1>2, <2>1, JobPreserves DEF ListError
<1>3. CASE DecideOrphans
  <2>1. Leased \subseteq allWorkers
    BY DEF PoolInv, LedgerExact
  <2>2. targets' \cap (Known \cup Leased) = {} /\ targets' \in SUBSET Workers
        /\ old' = {} /\ job' = "reconcile_delete" /\ job' \in Jobs
    BY <1>3, <2>1 DEF DecideOrphans, ManagerTypeOK, Jobs, Separate, Known
  <2> QED
    BY <1>3, <2>2, JobPreserves DEF DecideOrphans
<1>4. CASE ReconcileDone \/ ShutdownDone
  <2>1. targets' = {} /\ old' \in SUBSET Workers /\ old' \cap Created = {}
        /\ job' \in {"sleep", "halted"} /\ job' \in Jobs
    BY <1>4 DEF ReconcileDone, ShutdownDone, ManagerTypeOK, Jobs, Separate
  <2> QED
    BY <1>4, <2>1, JobPreserves DEF ReconcileDone, ShutdownDone
<1> QED
  BY <1>1, <1>2, <1>3, <1>4

\* At shutdown nothing is in flight, and the drained workers are registered no more.
LEMMA ShutdownPreserves ==
  ASSUME PoolInv, PoolInv', OwnInv, Shutdown
  PROVE  OwnInv'
<1> USE DEF OwnInv, Shutdown
<1>1. /\ phase' = "closed" /\ allWorkers' = {}
      /\ \A r \in Requests : pc[r] = "out"
  BY DEF Drain
<1>2. Created = {} /\ Created' = Created /\ \A r \in Requests : created[r] = NoWorker
  BY <1>1 DEF Created, CreatedOwned
<1>3. Leased' = {}
  BY <1>1 DEF PoolInv, LedgerExact
<1>4. ManagerTypeOK' /\ StartupQuiet'
  BY <1>1 DEF ManagerTypeOK, Jobs, StartupQuiet, PoolInv, TypeOK
<1>5. CreatedOwned' /\ Separate' /\ KnownWorkersExist' /\ StartingContainersExist'
  BY <1>1, <1>2 DEF CreatedOwned, Separate, KnownWorkersExist, StartingContainersExist
<1>6. TargetsUnreachable'
  BY <1>1, <1>2, <1>3 DEF TargetsUnreachable, Known
<1> QED
  BY <1>4, <1>5, <1>6

\* A restarted gateway knows nothing.
LEMMA RestartPreserves ==
  ASSUME OwnInv, Restart
  PROVE  OwnInv'
<1> USE DEF OwnInv, Restart
<1>1. Created' = {} /\ Leased' = {}
  BY DEF Created, Leased
<1>2. ManagerTypeOK' /\ StartupQuiet'
  BY BoundsAssumption DEF ManagerTypeOK, Jobs, StartupQuiet
<1>3. CreatedOwned' /\ Separate' /\ KnownWorkersExist' /\ StartingContainersExist'
      /\ TargetsUnreachable'
  BY <1>1 DEF CreatedOwned, Separate, KnownWorkersExist, StartingContainersExist,
              TargetsUnreachable
<1> QED
  BY <1>2, <1>3

\* Time does not pass a provision call by.
LEMMA TickPreserves ==
  ASSUME OwnInv, Tick
  PROVE  OwnInv'
<1> USE DEF OwnInv, Tick
<1>1. UNCHANGED <<phase, idleWorkers, allWorkers, provisioningCount, pc, lease>>
  BY DEF vars
<1>2. Leased' = Leased /\ Created' = Created
  BY <1>1 DEF Leased, Created
<1>3. /\ age' \in [Workers -> 0..GracePeriod]
      /\ \A w \in Workers : age'[w] \in {age[w], age[w] + 1}
  BY GraceAssumption DEF ManagerTypeOK
<1>4. ManagerTypeOK'
  BY <1>3 DEF ManagerTypeOK
<1>5. CreatedOwned'
  <2>1. ASSUME NEW r \in Requests, created[r] # NoWorker
        PROVE  age'[created[r]] <= ProvisionBound
    <3>1. created[r] \in Workers /\ created[r] \in Created
      BY <2>1 DEF ManagerTypeOK, Created
    <3>2. age[created[r]] < ProvisionBound /\ age[created[r]] \in Nat
      BY <3>1 DEF ManagerTypeOK
    <3> QED
      BY <1>3, <3>1, <3>2, GraceAssumption
  <2> QED
    BY <1>1, <2>1 DEF CreatedOwned
<1>6. Separate' /\ StartupQuiet' /\ KnownWorkersExist' /\ StartingContainersExist'
      /\ TargetsUnreachable'
  BY <1>1, <1>2 DEF Separate, StartupQuiet, KnownWorkersExist,
                    StartingContainersExist, TargetsUnreachable, Known
<1> QED
  BY <1>4, <1>5, <1>6

----------------------------------------------------------------------------
(* Theorems *)

LEMMA ManagerInitial == ManagerInit => ManagerInv
<1> SUFFICES ASSUME ManagerInit PROVE ManagerInv
  OBVIOUS
<1>1. PoolInv
  BY PoolInit DEF ManagerInit
<1>2. Created = {} /\ Leased = {} /\ allWorkers = {}
  BY DEF ManagerInit, Init, Created, Leased
<1>3. ManagerTypeOK
  BY GraceAssumption, BoundsAssumption DEF ManagerInit, ManagerTypeOK, Jobs
<1>4. CreatedOwned /\ Separate /\ StartupQuiet
  BY <1>2 DEF ManagerInit, Init, CreatedOwned, Separate, StartupQuiet
<1>5. KnownWorkersExist /\ StartingContainersExist /\ TargetsUnreachable
  BY <1>2 DEF ManagerInit, KnownWorkersExist, StartingContainersExist, TargetsUnreachable
<1> QED
  BY <1>1, <1>3, <1>4, <1>5 DEF ManagerInv

\* One step per action.
LEMMA ManagerStep == ManagerInv /\ [ManagerNext]_allVars => ManagerInv'
<1> SUFFICES ASSUME ManagerInv, [ManagerNext]_allVars PROVE ManagerInv'
  OBVIOUS
<1>1. PoolInv /\ OwnInv
  BY DEF ManagerInv, OwnInv
<1>2. PoolInv'
  BY <1>1, PoolInvCarriesOver DEF OwnInv
<1>3. ASSUME NEW r \in Requests, PoolOnly(r) PROVE OwnInv'
  BY <1>1, <1>2, <1>3, PoolOnlyPreserves
<1>4. ASSUME NEW r \in Requests, NEW w \in Workers, EnsureContainer(r, w) PROVE OwnInv'
  BY <1>1, <1>4, EnsurePreserves
<1>5. ASSUME NEW r \in Requests, ProvisionReady(r) PROVE OwnInv'
  BY <1>1, <1>2, <1>5, ReadyPreserves
<1>6. ASSUME NEW r \in Requests, ProvisionError(r) PROVE OwnInv'
  BY <1>1, <1>2, <1>6, ErrorPreserves
<1>7. ASSUME NEW w \in Workers, AbandonedEnsure(w) PROVE OwnInv'
  BY <1>1, <1>7, AbandonedPreserves
<1>8. ASSUME NEW w \in Workers, Delete(w) \/ DeleteError(w) PROVE OwnInv'
  BY <1>1, <1>8, DeletePreserves
<1>9. ASSUME CleanupList PROVE OwnInv'
  BY <1>1, <1>9, CleanupPreserves
<1>10. ASSUME CleanupDone PROVE OwnInv'
  BY <1>1, <1>10, CleanupDonePreserves
<1>11. ASSUME NEW expired \in SUBSET Idle, PruneAll(expired) PROVE OwnInv'
  BY <1>1, <1>11, PruneAllPreserves
<1>12. ASSUME PruneNothing \/ PruneDone PROVE OwnInv'
  BY <1>1, <1>12, ReconcileStartPreserves
<1>13. ASSUME ListContainers \/ ListError \/ DecideOrphans \/ ReconcileDone \/ ShutdownDone PROVE OwnInv'
  BY <1>1, <1>13, RoundPreserves
<1>14. ASSUME Shutdown PROVE OwnInv'
  BY <1>1, <1>2, <1>14, ShutdownPreserves
<1>15. ASSUME Restart PROVE OwnInv'
  BY <1>1, <1>15, RestartPreserves
<1>16. ASSUME Tick PROVE OwnInv'
  BY <1>1, <1>16, TickPreserves
<1>17. ASSUME UNCHANGED allVars PROVE OwnInv'
  <2>1. UNCHANGED <<vars, exists, age, created, abandoned, crashes>> /\ UNCHANGED <<job, targets, old>>
    BY <1>17 DEF allVars, managerVars
  <2> QED
    BY <1>1, <2>1, JobPreserves
    DEF OwnInv, ManagerTypeOK, Separate, TargetsUnreachable, StartupQuiet
<1>18. OwnInv'
  BY <1>3, <1>4, <1>5, <1>6, <1>7, <1>8, <1>9, <1>10, <1>11, <1>12, <1>13, <1>14,
     <1>15, <1>16, <1>17 DEF ManagerNext
<1> QED
  BY <1>2, <1>18 DEF ManagerInv, OwnInv

\* The inductive invariant of the manager.
THEOREM ManagerInvariant == ManagerSpec => []ManagerInv
  BY ManagerInitial, ManagerStep, PTL DEF ManagerSpec

\* Clean-up never deletes a registered worker, leased or idle.
THEOREM RegisteredWorkersAreKept == ManagerSpec => []KnownWorkersExist
  BY ManagerInvariant, PTL DEF ManagerInv

\* A grace period longer than a provision call protects starting containers.
THEOREM GracePeriodProtects == ManagerSpec => []StartingContainersExist
  BY ManagerInvariant, PTL DEF ManagerInv

\* What is about to be deleted is out of the reach of every request.
THEOREM DeletionTargetsAreUnreachable == ManagerSpec => []TargetsUnreachable
  BY ManagerInvariant, PTL DEF ManagerInv

\* The pool's invariant survives crashes, clean-up and shutdown.
THEOREM PoolSurvivesRestarts == ManagerSpec => []PoolInv
  BY ManagerInvariant, PTL DEF ManagerInv
=============================================================================
