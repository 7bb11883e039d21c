--------------------------- MODULE ContainerPause ---------------------------
(***************************************************************************)
(* Pausing of idle containers: PoolManager with pause_enabled, in          *)
(* services/gateway/services/pool_manager.py, around one ContainerPool.    *)
(*                                                                         *)
(* release_worker() starts a task that sleeps, checks and asks the agent   *)
(* to pause the container.  acquire_worker() cancels that task, resumes a  *)
(* container that is known to be paused, and evicts one that cannot be     *)
(* resumed.  From pool.acquire()'s return to the cancellation no await     *)
(* gives way, so both are one step; and release_worker() does not suspend, *)
(* since a worker that was handed out has no task left.                    *)
(*                                                                         *)
(* A cancelled pause call may have reached the agent: the container is     *)
(* frozen, or will be, and the manager never learns of it.                 *)
(***************************************************************************)
EXTENDS ContainerPool

VARIABLES stage,      \* what a request does with the worker pool.acquire() gave it:
                      \* "none", "cancelling", "resuming", "serving"
          pauseTask,  \* _pause_tasks: "none", "sleeping", or "calling" the agent
          pausedIds,  \* _paused_ids
          pruning,    \* taken from the pool by a prune round, still to be cleared
          frozen,     \* containers whose task is paused at the agent
          unsure,     \* pause calls of unknown outcome: "no", "running", "over"
          lost        \* workers whose request was cancelled while resuming them

pauseVars == <<stage, pauseTask, pausedIds, pruning, frozen, unsure, lost>>
pausingVars == <<vars, pauseVars>>

PauseInit == /\ Init
             /\ stage = [r \in Requests |-> "none"]
             /\ pauseTask = [w \in Workers |-> "none"]
             /\ pausedIds = {}
             /\ pruning = {}
             /\ frozen = {}
             /\ unsure = [w \in Workers |-> "no"]
             /\ lost = {}

----------------------------------------------------------------------------
(* acquire_worker() *)

StageOnceCancelledIgnoringPause(w) == "serving"

\* After the pause task is gone: a worker that is known to be paused is resumed.
StageOnceCancelled(w) == IF w \in pausedIds THEN "resuming" ELSE "serving"

CancelTaskForgotten(ws) == UNCHANGED <<pauseTask, unsure>>

\* task.cancel(): a call that was cut off may still be carried out by the agent.
CancelTask(ws) ==
  /\ pauseTask' = [w \in Workers |-> IF w \in ws THEN "none" ELSE pauseTask[w]]
  /\ unsure' = [w \in Workers |->
                 IF w \in ws /\ pauseTask[w] = "calling" THEN "running" ELSE unsure[w]]

\* The pool has returned w to r.  With a pause task, r waits for it to end.
HandedOut(r, w) ==
  /\ stage' = [stage EXCEPT ![r] = IF pauseTask[w] # "none" THEN "cancelling"
                                   ELSE StageOnceCancelled(w)]
  /\ CancelTask({w})

AcquireIdle(r) == /\ TakeIdle(r)
                  /\ HandedOut(r, lease'[r])
                  /\ UNCHANGED <<pausedIds, pruning, frozen, lost>>

AcquireNoWorker(r) == /\ Reserve(r) \/ Wait(r) \/ GiveUp(r) \/ ProvisionFail(r)
                      /\ UNCHANGED pauseVars

\* A new container: nothing is left over from an earlier one of its name.
AcquireNew(r, w) ==
  /\ w \notin frozen \cup pausedIds \cup pruning
  /\ unsure[w] = "no" /\ pauseTask[w] = "none"
  /\ ProvisionOk(r, w)
  /\ HandedOut(r, w)
  /\ UNCHANGED <<pausedIds, pruning, frozen, lost>>

\* The awaited task has ended.  A cancellation of the request meanwhile is
\* swallowed by `except asyncio.CancelledError: pass`.
CancelDone(r) ==
  /\ stage[r] = "cancelling"
  /\ stage' = [stage EXCEPT ![r] = StageOnceCancelled(lease[r])]
  /\ UNCHANGED <<vars, pauseTask, pausedIds, pruning, frozen, unsure, lost>>

ResumeOk(r) ==
  /\ stage[r] = "resuming"
  /\ stage' = [stage EXCEPT ![r] = "serving"]
  /\ pausedIds' = pausedIds \ {lease[r]}
  /\ frozen' = frozen \ {lease[r]}
  /\ UNCHANGED <<vars, pauseTask, pruning, unsure, lost>>

ResumeFailKeepingWorker(r) ==
  /\ stage[r] = "resuming"
  /\ pausedIds' = pausedIds \ {lease[r]}
  /\ lease' = [lease EXCEPT ![r] = NoWorker]
  /\ pc' = NotifyAll([pc EXCEPT ![r] = "out"])
  /\ stage' = [stage EXCEPT ![r] = "none"]
  /\ UNCHANGED <<phase, idleWorkers, allWorkers, provisioningCount,
                 pauseTask, pruning, frozen, unsure, lost>>

\* resume_container() raises, before or after the container ran again: the
\* worker is evicted and the loop goes back to the pool without a suspension,
\* where it finds another idle worker or the capacity it has just freed.
ResumeFail(r) ==
  /\ stage[r] = "resuming"
  /\ allWorkers' = allWorkers \ {lease[r]}
  /\ pausedIds' = pausedIds \ {lease[r]}
  /\ frozen' \in {frozen, frozen \ {lease[r]}}
  /\ \/ \E w \in Idle : /\ idleWorkers' = [idleWorkers EXCEPT ![w] = @ - 1]
                        /\ lease' = [lease EXCEPT ![r] = w]
                        /\ pc' = NotifyAll(pc)
                        /\ HandedOut(r, w)
                        /\ UNCHANGED provisioningCount
     \/ /\ Idle = {}
        /\ provisioningCount' = provisioningCount + 1
        /\ lease' = [lease EXCEPT ![r] = NoWorker]
        /\ pc' = NotifyAll([pc EXCEPT ![r] = "provisioning"])
        /\ stage' = [stage EXCEPT ![r] = "none"]
        /\ UNCHANGED <<idleWorkers, pauseTask, unsure>>
  /\ UNCHANGED <<phase, pruning, lost>>

\* The request is cancelled while it resumes: `except Exception` does not catch
\* that, so nobody releases or evicts the worker.
ResumeCancelled(r) ==
  /\ stage[r] = "resuming"
  /\ lost' = lost \cup {lease[r]}
  /\ frozen' \in {frozen, frozen \ {lease[r]}}
  /\ lease' = [lease EXCEPT ![r] = NoWorker]
  /\ pc' = [pc EXCEPT ![r] = "out"]
  /\ stage' = [stage EXCEPT ![r] = "none"]
  /\ UNCHANGED <<phase, idleWorkers, allWorkers, provisioningCount,
                 pauseTask, pausedIds, pruning, unsure>>

----------------------------------------------------------------------------
(* release_worker() and evict_worker() *)

ReleaseAndSchedule(r) ==
  /\ stage[r] = "serving"
  /\ Release(r)
  /\ stage' = [stage EXCEPT ![r] = "none"]
  /\ pauseTask' = [pauseTask EXCEPT ![lease[r]] = "sleeping"]
  /\ UNCHANGED <<pausedIds, pruning, frozen, unsure, lost>>

EvictServing(r) ==
  /\ stage[r] = "serving"
  /\ Evict(r)
  /\ stage' = [stage EXCEPT ![r] = "none"]
  /\ CancelTask({lease[r]})
  /\ pausedIds' = pausedIds \ {lease[r]}
  /\ UNCHANGED <<pruning, frozen, lost>>

----------------------------------------------------------------------------
(* _pause_after_delay() *)

\* The sleep is over.  A worker that is paused or no longer idle is left alone.
PauseStart(w) ==
  /\ pauseTask[w] = "sleeping"
  /\ pauseTask' = [pauseTask EXCEPT ![w] =
                     IF w \in pausedIds \/ w \notin Idle \cap allWorkers
                     THEN "none" ELSE "calling"]
  /\ UNCHANGED <<vars, stage, pausedIds, pruning, frozen, unsure, lost>>

\* The agent pauses the task; one that is paused already makes the call fail.
PauseOk(w) ==
  /\ pauseTask[w] = "calling"
  /\ w \notin frozen
  /\ pauseTask' = [pauseTask EXCEPT ![w] = "none"]
  /\ pausedIds' = pausedIds \cup {w}
  /\ frozen' = frozen \cup {w}
  /\ UNCHANGED <<vars, stage, pruning, unsure, lost>>

\* The call fails and is logged; when the answer was lost the container may be
\* frozen all the same.
PauseFail(w) ==
  /\ pauseTask[w] = "calling"
  /\ pauseTask' = [pauseTask EXCEPT ![w] = "none"]
  /\ \/ UNCHANGED <<frozen, unsure>>
     \/ frozen' = frozen \cup {w} /\ unsure' = [unsure EXCEPT ![w] = "over"]
  /\ UNCHANGED <<vars, stage, pausedIds, pruning, lost>>

\* The agent ends a pause call that nobody waits for, with or without effect.
LateCall(w) ==
  /\ unsure[w] = "running"
  /\ unsure' = [unsure EXCEPT ![w] = "over"]
  /\ frozen' \in {frozen, frozen \cup {w}}
  /\ UNCHANGED <<vars, stage, pauseTask, pausedIds, pruning, lost>>

----------------------------------------------------------------------------
(* prune_all_pools(), the janitor's deletions and shutdown_all() *)

PauseAwarePrune(expired) ==
  /\ pruning = {}
  /\ Prune(expired)
  /\ pruning' = expired
  /\ UNCHANGED <<stage, pauseTask, pausedIds, frozen, unsure, lost>>

\* One worker at a time, each await letting other tasks run.
PruneClear(w) ==
  /\ w \in pruning
  /\ pruning' = pruning \ {w}
  /\ CancelTask({w})
  /\ pausedIds' = pausedIds \ {w}
  /\ UNCHANGED <<vars, stage, frozen, lost>>

\* A container outside the pool is deleted by the prune round or as an orphan.
Deleted(w) ==
  /\ w \notin allWorkers \cup pruning
  /\ w \in frozen \/ unsure[w] # "no"
  /\ frozen' = frozen \ {w}
  /\ unsure' = [unsure EXCEPT ![w] = "no"]
  /\ UNCHANGED <<vars, stage, pauseTask, pausedIds, pruning, lost>>

PauseShutdown ==
  /\ Drain
  /\ CancelTask(Workers)
  /\ pausedIds' = {}
  /\ pruning' = {}
  /\ lost' = {}
  /\ UNCHANGED <<stage, frozen>>

Serving == StartServing /\ UNCHANGED pauseVars
PauseHalted == Closed /\ UNCHANGED pauseVars

PauseNext ==
  \/ Serving
  \/ \E r \in Requests : \/ AcquireIdle(r)
                         \/ AcquireNoWorker(r)
                         \/ \E w \in Workers : AcquireNew(r, w)
                         \/ CancelDone(r)
                         \/ ResumeOk(r) \/ ResumeFail(r) \/ ResumeCancelled(r)
                         \/ ReleaseAndSchedule(r)
                         \/ EvictServing(r)
  \/ \E w \in Workers : \/ PauseStart(w) \/ PauseOk(w) \/ PauseFail(w)
                        \/ LateCall(w) \/ PruneClear(w) \/ Deleted(w)
  \/ \E expired \in SUBSET Idle : PauseAwarePrune(expired)
  \/ PauseShutdown
  \/ PauseHalted

PauseSpec == PauseInit /\ [][PauseNext]_pausingVars

----------------------------------------------------------------------------
(* Properties *)

InHand(w) == \E r \in Requests : /\ pc[r] = "leased" /\ lease[r] = w
                                 /\ stage[r] \in {"cancelling", "resuming"}

\* acquire_worker() never returns a worker that _paused_ids lists, whatever the
\* order of pause calls, cancellations and prune rounds: a listed worker is
\* idle, in the hands of a request that resumes it, being pruned, or lost.
PausedAreOutOfUse ==
  \A w \in pausedIds : w \in Idle \/ InHand(w) \/ w \in pruning \cup lost

\* A request is served by a frozen container only if an earlier pause call on
\* that container was cut off or its answer lost: with every outcome known, the
\* cancelled task, the is_idle() check and _paused_ids together exclude it.
FrozenServesOnlyAfterLostCall ==
  \A r \in Requests : stage[r] = "serving" /\ lease[r] \in frozen
                        => unsure[lease[r]] # "no"

\* The pool's ledger stays exact with the resume loop around it, except for one
\* leak: a worker whose request was cancelled while resuming it stays counted
\* against max_capacity until shutdown.
OnlyCancelledResumeLeaks ==
  /\ allWorkers = Idle \cup Leased \cup lost
  /\ lost \cap (Idle \cup Leased) = {}
  /\ provisioningCount = Cardinality(InFlight)
=============================================================================
