---------------------------- MODULE PoolManager ----------------------------
(***************************************************************************)
(* The pool, the agent's containers and the tasks that delete containers:  *)
(* PoolManager (services/gateway/services/pool_manager.py) with            *)
(* HeartbeatJanitor (janitor.py), GrpcProvisionClient (grpc_provision.py)  *)
(* and the lifespan of main.py.  Pausing is off, its default.              *)
(*                                                                         *)
(* One function's ContainerPool is extended by what exists at the agent,   *)
(* by the container a provision call has created and not yet registered,   *)
(* and by the one task that deletes containers: the start-up clean-up, the *)
(* janitor's rounds and the shutdown follow each other.  Requests run      *)
(* between any two of its awaits.  The gateway may crash and restart; its  *)
(* memory is lost, the agent and the containers stay.                      *)
(*                                                                         *)
(* Time is discrete: the age of a container counts up to the grace period. *)
(***************************************************************************)
EXTENDS ContainerPool

CONSTANTS GracePeriod,     \* ORPHAN_GRACE_PERIOD_SECONDS, in ticks
          ProvisionBound,  \* most ticks from creation to the end of provision()
          MaxAbandoned,    \* bound on Ensure calls whose caller has gone
          MaxCrashes       \* bound on crashes of the gateway

\* The readiness check gives up after 10 s and the network set-up after five
\* short attempts; the grace period is 60 s.
ASSUME GraceAssumption == /\ GracePeriod \in Nat
                          /\ ProvisionBound \in Nat
                          /\ ProvisionBound < GracePeriod
ASSUME BoundsAssumption == MaxAbandoned \in Nat /\ MaxCrashes \in Nat

VARIABLES exists,     \* containers the agent has
          age,        \* ticks since a container was created, up to GracePeriod
          created,    \* container made for a provision call in flight
          abandoned,  \* Ensure calls still running for a caller that gave up
          job,        \* where the deleting task stands
          targets,    \* containers it has listed or is about to delete
          old,        \* containers past the grace period at current_time
          crashes

managerVars == <<exists, age, created, abandoned, job, targets, old, crashes>>
allVars == <<vars, managerVars>>

Created == {created[r] : r \in Requests} \ {NoWorker}
Known == allWorkers \cup Created

Jobs == {"boot", "boot_delete", "sleep", "prune_delete", "list", "decide",
         "reconcile_delete", "shutdown_delete", "halted"}

ManagerInit == /\ Init
               /\ exists = {}
               /\ age = [w \in Workers |-> 0]
               /\ created = [r \in Requests |-> NoWorker]
               /\ abandoned = 0
               /\ job = "boot"
               /\ targets = {}
               /\ old = {}
               /\ crashes = 0

----------------------------------------------------------------------------
(* Requests.  Acquiring without provisioning, releasing and evicting touch  *)
(* the pool only: evict_worker() leaves the container to the janitor.       *)

PoolOnly(r) == /\ \/ TakeIdle(r) \/ Reserve(r) \/ Wait(r) \/ GiveUp(r)
                  \/ Release(r) \/ Evict(r)
               /\ UNCHANGED managerVars

\* Containers get new names: none that exists, or that someone still refers to.
Fresh(w) == w \notin exists \cup allWorkers \cup Leased \cup targets \cup old

\* EnsureContainer has created the container; provision() goes on to wait until
\* its port answers.
EnsureContainer(r, w) ==
  /\ pc[r] = "provisioning"
  /\ created[r] = NoWorker
  /\ Fresh(w)
  /\ exists' = exists \cup {w}
  /\ age' = [age EXCEPT ![w] = 0]
  /\ created' = [created EXCEPT ![r] = w]
  /\ UNCHANGED <<vars, abandoned, job, targets, old, crashes>>

\* The port answers, so the container is there; acquire() registers it.
ProvisionReady(r) ==
  /\ created[r] \in exists
  /\ ProvisionOk(r, created[r])
  /\ created' = [created EXCEPT ![r] = NoWorker]
  /\ UNCHANGED <<exists, age, abandoned, job, targets, old, crashes>>

\* The call fails or is cancelled.  Nobody deletes a container that was created
\* for it, and a call cut off before the answer may still create one.
ProvisionError(r) ==
  /\ ProvisionFail(r)
  /\ created' = [created EXCEPT ![r] = NoWorker]
  /\ \/ UNCHANGED abandoned
     \/ created[r] = NoWorker /\ abandoned < MaxAbandoned /\ abandoned' = abandoned + 1
  /\ UNCHANGED <<exists, age, job, targets, old, crashes>>

AbandonedEnsure(w) ==
  /\ abandoned > 0
  /\ Fresh(w)
  /\ abandoned' = abandoned - 1
  /\ exists' = exists \cup {w}
  /\ age' = [age EXCEPT ![w] = 0]
  /\ UNCHANGED <<vars, created, job, targets, old, crashes>>

----------------------------------------------------------------------------
(* The deleting task *)

\* delete_container() succeeds ...
Delete(w) ==
  /\ job \in {"boot_delete", "prune_delete", "reconcile_delete", "shutdown_delete"}
  /\ w \in targets
  /\ exists' = exists \ {w}
  /\ targets' = targets \ {w}
  /\ UNCHANGED <<vars, age, created, abandoned, job, old, crashes>>

\* ... or raises; every loop logs that and goes on with the next container.
DeleteError(w) ==
  /\ job \in {"boot_delete", "prune_delete", "reconcile_delete", "shutdown_delete"}
  /\ w \in targets
  /\ targets' = targets \ {w}
  /\ UNCHANGED <<vars, exists, age, created, abandoned, job, old, crashes>>

\* cleanup_all_containers(): list_containers() answers, or fails and gives [].
CleanupList ==
  /\ job = "boot"
  /\ job' = "boot_delete"
  /\ targets' \in {exists, {}}
  /\ UNCHANGED <<vars, exists, age, created, abandoned, old, crashes>>

CleanupDone ==
  /\ job = "boot_delete" /\ targets = {}
  /\ StartServing
  /\ job' = "sleep"
  /\ UNCHANGED <<exists, age, created, abandoned, targets, old, crashes>>

\* reconcile_orphans() reads current_time before it lists the containers.
ReconcileStart == /\ job' = "list"
                  /\ old' = {w \in exists : age[w] >= GracePeriod}

PruneAllUnlocked(expired) ==
  /\ job = "sleep"
  /\ phase = "serving"
  /\ expired # {}
  /\ job' = "prune_delete"
  /\ targets' = expired
  /\ UNCHANGED <<vars, exists, age, created, abandoned, old, crashes>>

\* _send_heartbeat(): prune_all_pools() takes expired workers from the pool and
\* then deletes them one by one.
PruneAll(expired) ==
  /\ job = "sleep"
  /\ Prune(expired)
  /\ job' = "prune_delete"
  /\ targets' = expired
  /\ UNCHANGED <<exists, age, created, abandoned, old, crashes>>

\* Nothing has expired, or pruning failed: reconciliation runs in both cases.
PruneNothing ==
  /\ job = "sleep" /\ phase = "serving"
  /\ ReconcileStart
  /\ UNCHANGED <<vars, exists, age, created, abandoned, targets, crashes>>

PruneDone ==
  /\ job = "prune_delete" /\ targets = {}
  /\ ReconcileStart
  /\ UNCHANGED <<vars, exists, age, created, abandoned, targets, crashes>>

\* The agent lists what it has; created_at decides what is past the grace period.
ListIgnoringGrace ==
  /\ job = "list"
  /\ job' = "decide"
  /\ targets' = exists
  /\ UNCHANGED <<vars, exists, age, created, abandoned, old, crashes>>

ListContainers ==
  /\ job = "list"
  /\ job' = "decide"
  /\ targets' = exists \cap old
  /\ UNCHANGED <<vars, exists, age, created, abandoned, old, crashes>>

\* list_containers() failed: it returns [] and the round is over.
ListError ==
  /\ job = "list"
  /\ job' = "sleep"
  /\ old' = {}
  /\ UNCHANGED <<vars, exists, age, created, abandoned, targets, crashes>>

DecideForgettingLedger ==
  /\ job = "decide"
  /\ job' = "reconcile_delete"
  /\ old' = {}
  /\ UNCHANGED <<vars, exists, age, created, abandoned, targets, crashes>>

DecideOnlyBesidesKnown ==
  /\ job = "decide"
  /\ job' = "reconcile_delete"
  /\ targets' = IF allWorkers = {} THEN {} ELSE targets \ allWorkers
  /\ old' = {}
  /\ UNCHANGED <<vars, exists, age, created, abandoned, crashes>>

\* The answer has arrived: known ids are collected now, not when listing began.
DecideOrphans ==
  /\ job = "decide"
  /\ job' = "reconcile_delete"
  /\ targets' = targets \ allWorkers
  /\ old' = {}
  /\ UNCHANGED <<vars, exists, age, created, abandoned, crashes>>

ReconcileDone ==
  /\ job = "reconcile_delete" /\ targets = {}
  /\ job' = "sleep"
  /\ UNCHANGED <<vars, exists, age, created, abandoned, targets, old, crashes>>

\* lifespan() after the last request: janitor.stop() cancels the round wherever
\* it is, shutdown_all() drains the pool and deletes its workers.
Shutdown ==
  /\ Drain
  /\ job' = "shutdown_delete"
  /\ targets' = allWorkers
  /\ old' = {}
  /\ UNCHANGED <<exists, age, created, abandoned, crashes>>

ShutdownDone ==
  /\ job = "shutdown_delete" /\ targets = {}
  /\ job' = "halted"
  /\ UNCHANGED <<vars, exists, age, created, abandoned, targets, old, crashes>>

----------------------------------------------------------------------------
(* Environment *)

\* The gateway's process dies or is started again: all of its memory is new.
\* Calls that were creating a container may go on at the agent.
Restart ==
  /\ crashes < MaxCrashes
  /\ crashes' = crashes + 1
  /\ phase' = "startup"
  /\ idleWorkers' = [w \in Workers |-> 0]
  /\ allWorkers' = {}
  /\ provisioningCount' = 0
  /\ pc' = [r \in Requests |-> "out"]
  /\ lease' = [r \in Requests |-> NoWorker]
  /\ created' = [r \in Requests |-> NoWorker]
  /\ abandoned' \in abandoned..MaxAbandoned
  /\ (\A r \in Requests : pc[r] = "provisioning" => created[r] # NoWorker)
       => abandoned' = abandoned
  /\ job' = "boot"
  /\ targets' = {}
  /\ old' = {}
  /\ UNCHANGED <<exists, age>>

\* Time passes; a provision call with a container ends within ProvisionBound.
Tick ==
  /\ \A w \in Created : age[w] < ProvisionBound
  /\ age' = [w \in Workers |-> IF w \in exists /\ age[w] < GracePeriod
                               THEN age[w] + 1 ELSE age[w]]
  /\ UNCHANGED <<vars, exists, created, abandoned, job, targets, old, crashes>>

ManagerNext ==
  \/ \E r \in Requests : \/ PoolOnly(r)
                         \/ \E w \in Workers : EnsureContainer(r, w)
                         \/ ProvisionReady(r)
                         \/ ProvisionError(r)
  \/ \E w \in Workers : AbandonedEnsure(w) \/ Delete(w) \/ DeleteError(w)
  \/ CleanupList \/ CleanupDone
  \/ \E expired \in SUBSET Idle : PruneAll(expired)
  \/ PruneNothing \/ PruneDone
  \/ ListContainers \/ ListError \/ DecideOrphans \/ ReconcileDone
  \/ Shutdown \/ ShutdownDone
  \/ Restart
  \/ Tick

ManagerSpec == ManagerInit /\ [][ManagerNext]_allVars

\* The deleting task runs on, time passes, and a provision call that has its
\* container ends.  The agent may fail any number of calls, but a listing that
\* is tried for ever succeeds in the end, and so does a deletion.
ManagerFairness ==
  /\ WF_allVars(Tick)
  /\ WF_allVars(CleanupList \/ CleanupDone)
  /\ WF_allVars(PruneNothing \/ PruneDone)
  /\ WF_allVars(DecideOrphans \/ ReconcileDone)
  /\ WF_allVars(\E w \in Workers : Delete(w) \/ DeleteError(w))
  /\ SF_allVars(ListContainers)
  /\ \A w \in Workers : SF_allVars(Delete(w))
  /\ \A r \in Requests : WF_allVars(ProvisionReady(r) \/ ProvisionError(r))

ManagerLiveSpec == ManagerSpec /\ ManagerFairness

----------------------------------------------------------------------------
(* Properties *)

\* Types of the manager's own state.
ManagerTypeOK ==
  /\ exists \in SUBSET Workers
  /\ age \in [Workers -> 0..GracePeriod]
  /\ created \in [Requests -> Workers \cup {NoWorker}]
  /\ abandoned \in 0..MaxAbandoned
  /\ job \in Jobs
  /\ targets \in SUBSET Workers
  /\ old \in SUBSET Workers
  /\ crashes \in 0..MaxCrashes

\* The janitor never takes a container away from the pool: every registered
\* worker, idle or serving a request, still exists at the agent, although the
\* janitor decides with a listing and a clock reading that are out of date.
KnownWorkersExist == allWorkers \subseteq exists

\* The grace period protects containers that are being made ready: "This
\* prevents deleting containers during creation/readiness checks".
StartingContainersExist == Created \subseteq exists

\* What is going to be deleted is out of the reach of every request.
TargetsUnreachable == job # "decide" => targets \cap (Known \cup Leased) = {}

\* A container nobody knows, left by a failed provision, an eviction, a failed
\* deletion or a crash, is deleted in the end while the gateway keeps running.
OrphansDisappear ==
  \A w \in Workers :
    w \in exists /\ w \notin Known
      ~> w \notin exists \/ job \in {"shutdown_delete", "halted"}
=============================================================================
