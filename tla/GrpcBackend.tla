---------------------------- MODULE GrpcBackend ----------------------------
(***************************************************************************)
(* The direct gRPC backend: GrpcBackend (services/gateway/services/        *)
(* grpc_backend.py) on the function's throttle (FunctionThrottle), with    *)
(* ResourceJanitor (janitor.py) and the containers of the agent's          *)
(* containerd runtime.                                                     *)
(*                                                                         *)
(* acquire_worker() takes a slot, has the agent create a container and     *)
(* waits for its port; release_worker() returns the slot and leaves the    *)
(* container to the janitor; evict_worker() destroys the container and     *)
(* leaves the slot.  The janitor's listing and clock reading are out of    *)
(* date when it deletes.                                                   *)
(*                                                                         *)
(* Time is discrete: age counts the ticks since a container was last used, *)
(* which for this backend is when it was created.                          *)
(***************************************************************************)
EXTENDS FunctionThrottle

CONSTANTS Workers, NoWorker,
          IdleTimeout,  \* idle_timeout, in ticks
          UseBound      \* most ticks from creation to the end of the invocation

\* 600 s against at most 10 s of readiness checks and the 300 s that invoke_function
\* gives its post by default.
ASSUME IdleAssumption == /\ IdleTimeout \in Nat /\ UseBound \in Nat
                         /\ UseBound < IdleTimeout
                         /\ NoWorker \notin Workers

VARIABLES work,    \* what a caller with a slot is doing
          held,    \* the container made for it
          status,  \* containers at the agent: "absent" or their state
          age,     \* ticks since last_used_at, up to IdleTimeout + 1
          leaks,   \* slots that current counts and nobody will return
          job,     \* where the janitor stands
          old,     \* containers idle too long when the round read the clock
          targets  \* containers the round is about to evict

containerVars == <<status, age>>
janitorVars == <<job, old, targets>>
backendVars == <<vars, work, held, containerVars, leaks, janitorVars>>

Exists == {w \in Workers : status[w] # "absent"}
Held == {held[c] : c \in Callers} \ {NoWorker}

\* Containers of an earlier gateway may be around.
BackendInit == /\ Init
               /\ work = [c \in Callers |-> "none"]
               /\ held = [c \in Callers |-> NoWorker]
               /\ status \in [Workers -> {"absent", "RUNNING", "PAUSED"}]
               /\ age = [w \in Workers |-> 0]
               /\ leaks = 0
               /\ job = "boot"
               /\ old = {}
               /\ targets = {}

----------------------------------------------------------------------------
(* acquire_worker() *)

GotSlot(c) == /\ job \notin {"boot", "boot_evict"}
              /\ TakeSlot(c) \/ Resume(c)
              /\ work' = [work EXCEPT ![c] = "ensuring"]
              /\ UNCHANGED <<held, containerVars, leaks, janitorVars>>

Queueing(c) == /\ job \notin {"boot", "boot_evict"}
               /\ Enqueue(c) \/ Expire(c) \/ Revoke(c)
               /\ UNCHANGED <<work, held, containerVars, leaks, janitorVars>>

\* A task that gives up after its future got the result keeps the slot counted.
GiveUp(c) == /\ Withdraw(c)
             /\ leaks' = IF task[c] = "revoked" THEN leaks + 1 ELSE leaks
             /\ UNCHANGED <<work, held, containerVars, janitorVars>>

\* Names are new: none that exists or that the janitor still refers to.
Create(w) == /\ w \notin Exists \cup old \cup targets \cup Held
             /\ status' = [status EXCEPT ![w] = "RUNNING"]
             /\ age' = [age EXCEPT ![w] = 0]

Ensured(c, w) == /\ work[c] = "ensuring"
                 /\ Create(w)
                 /\ work' = [work EXCEPT ![c] = "starting"]
                 /\ held' = [held EXCEPT ![c] = w]
                 /\ UNCHANGED <<vars, leaks, janitorVars>>

Ready(c) == /\ work[c] = "starting"
            /\ work' = [work EXCEPT ![c] = "invoking"]
            /\ UNCHANGED <<vars, held, containerVars, leaks, janitorVars>>

Leave(c) == /\ work' = [work EXCEPT ![c] = "none"]
            /\ held' = [held EXCEPT ![c] = NoWorker]

\* An Ensure call that failed or was cut off may have created a container.
MaybeCreated(c) == \/ UNCHANGED containerVars
                   \/ work[c] = "ensuring" /\ \E w \in Workers : Create(w)

\* throttle.release(): the slot is lost when it goes to a future that is done.
ReturnSlot(c) ==
  /\ Release(c)
  /\ leaks' = IF waiters # <<>> /\ task[Head(waiters)] # "queued"
              THEN leaks + 1 ELSE leaks

AcquireFailsKeepingSlot(c) == /\ work[c] \in {"ensuring", "starting"}
                              /\ task' = [task EXCEPT ![c] = "out"]
                              /\ MaybeCreated(c)
                              /\ Leave(c)
                              /\ UNCHANGED <<current, waiters, leaks, janitorVars>>

\* `except Exception`: an RPC error or the readiness check's ContainerStartError.
AcquireFails(c) == /\ work[c] \in {"ensuring", "starting"}
                   /\ ReturnSlot(c)
                   /\ MaybeCreated(c)
                   /\ Leave(c)
                   /\ UNCHANGED janitorVars

\* The caller leaves without throttle.release().
KeepSlot(c) == /\ task' = [task EXCEPT ![c] = "out"]
               /\ leaks' = leaks + 1
               /\ UNCHANGED <<current, waiters>>

\* A cancellation is not an Exception: nobody returns the slot.
AcquireCancelled(c) == /\ work[c] \in {"ensuring", "starting"}
                       /\ KeepSlot(c)
                       /\ MaybeCreated(c)
                       /\ Leave(c)
                       /\ UNCHANGED janitorVars

----------------------------------------------------------------------------
(* release_worker() and evict_worker() *)

ReleaseWorker(c) == /\ work[c] = "invoking"
                    /\ ReturnSlot(c)
                    /\ Leave(c)
                    /\ UNCHANGED <<containerVars, janitorVars>>

\* The worker is dead; the invoker evicts it and then has none to release.
EvictWorker(c) == /\ work[c] = "invoking"
                  /\ KeepSlot(c)
                  /\ \/ status' = [status EXCEPT ![held[c]] = "absent"]
                     \/ UNCHANGED status
                  /\ Leave(c)
                  /\ UNCHANGED <<age, janitorVars>>

\* Cancelled in the DestroyContainer call, which may have reached the agent: worker
\* is still set, so the finally block of invoke_function releases it.
EvictCancelled(c) == /\ work[c] = "invoking"
                     /\ ReturnSlot(c)
                     /\ \/ status' = [status EXCEPT ![held[c]] = "absent"]
                        \/ UNCHANGED status
                     /\ Leave(c)
                     /\ UNCHANGED <<age, janitorVars>>

----------------------------------------------------------------------------
(* ResourceJanitor *)

\* cleanup_on_startup(): list_workers() answers, or fails and gives [].
StartupList == /\ job = "boot"
               /\ job' = "boot_evict"
               /\ targets' \in {{}, {w \in Workers : status[w] = "PAUSED"}}
               /\ UNCHANGED <<vars, work, held, containerVars, leaks, old>>

\* _cleanup_idle_containers() reads the clock before it lists.
RoundStartIgnoringAge ==
  /\ job = "sleep"
  /\ job' = "list"
  /\ old' = {w \in Workers : age[w] > UseBound - 1}
  /\ UNCHANGED <<vars, work, held, containerVars, leaks, targets>>

RoundStart == /\ job = "sleep"
              /\ job' = "list"
              /\ old' = {w \in Workers : age[w] > IdleTimeout}
              /\ UNCHANGED <<vars, work, held, containerVars, leaks, targets>>

ListOnlyPaused == /\ job = "list"
                  /\ job' = "evict"
                  /\ targets' = {w \in old : status[w] = "PAUSED"}
                  /\ old' = {}
                  /\ UNCHANGED <<vars, work, held, containerVars, leaks>>

ListWorkers == /\ job = "list"
               /\ job' = "evict"
               /\ targets' = {w \in old : status[w] \in {"PAUSED", "RUNNING"}}
               /\ old' = {}
               /\ UNCHANGED <<vars, work, held, containerVars, leaks>>

ListFails == /\ job = "list"
             /\ job' = "sleep"
             /\ old' = {}
             /\ UNCHANGED <<vars, work, held, containerVars, leaks, targets>>

EvictOk(w) == /\ w \in targets
              /\ status' = [status EXCEPT ![w] = "absent"]
              /\ targets' = targets \ {w}
              /\ UNCHANGED <<vars, work, held, age, leaks, job, old>>

EvictFails(w) == /\ w \in targets
                 /\ targets' = targets \ {w}
                 /\ UNCHANGED <<vars, work, held, containerVars, leaks, job, old>>

RoundDone == /\ job \in {"boot_evict", "evict"}
             /\ targets = {}
             /\ job' = "sleep"
             /\ UNCHANGED <<vars, work, held, containerVars, leaks, old, targets>>

----------------------------------------------------------------------------
(* Environment *)

\* The function's process ends: the agent reports STOPPED.
Stop(w) == /\ status[w] = "RUNNING"
           /\ status' = [status EXCEPT ![w] = "STOPPED"]
           /\ UNCHANGED <<vars, work, held, age, leaks, janitorVars>>

\* Time passes; a caller is done with its container within UseBound.
Tick == /\ \A w \in Held : age[w] < UseBound
        /\ age' = [w \in Workers |-> IF w \in Exists /\ age[w] <= IdleTimeout
                                     THEN age[w] + 1 ELSE age[w]]
        /\ UNCHANGED <<vars, work, held, status, leaks, janitorVars>>

CallerEnds(c) == \/ AcquireFails(c) \/ AcquireCancelled(c)
                 \/ ReleaseWorker(c) \/ EvictWorker(c) \/ EvictCancelled(c)

BackendNext ==
  \/ \E c \in Callers : \/ GotSlot(c) \/ Queueing(c) \/ GiveUp(c)
                        \/ \E w \in Workers : Ensured(c, w)
                        \/ Ready(c)
                        \/ CallerEnds(c)
  \/ StartupList \/ RoundStart \/ ListWorkers \/ ListFails \/ RoundDone
  \/ \E w \in Workers : EvictOk(w) \/ EvictFails(w) \/ Stop(w)
  \/ Tick

BackendSpec == BackendInit /\ [][BackendNext]_backendVars

\* The janitor's task runs on, time passes, and an invocation ends.  Calls to the
\* agent may fail any number of times, but not for ever.
BackendFairness ==
  /\ WF_backendVars(Tick)
  /\ WF_backendVars(StartupList \/ RoundStart \/ RoundDone)
  /\ WF_backendVars(ListFails \/ ListWorkers)
  /\ WF_backendVars(\E w \in Workers : EvictOk(w) \/ EvictFails(w))
  /\ SF_backendVars(ListWorkers)
  /\ \A w \in Workers : SF_backendVars(EvictOk(w))
  /\ \A c \in Callers : WF_backendVars(CallerEnds(c))

BackendLiveSpec == BackendSpec /\ BackendFairness

----------------------------------------------------------------------------
(* Properties *)

\* The janitor never takes a container from a caller that waits for its port or
\* invokes it, although it decides by the age at creation and by a stale listing.
HeldContainersExist == Held \subseteq Exists

\* Every slot that current counts belongs to a caller, except those that leaked:
\* by a cancelled acquire, by an eviction, or by a hand-over to a caller that
\* had just given up.  A failing Ensure or readiness check leaks nothing.
SlotsAccountedFor == current = Cardinality(Holders) + leaks

\* A container that nobody uses is removed in the end, by a later round when calls
\* to the agent fail, unless its process has stopped: the janitor looks for
\* PAUSED and RUNNING only.
UnusedContainersGo ==
  \A w \in Workers : w \in Exists \ Held ~> status[w] \in {"absent", "STOPPED"}
=============================================================================
