-------------------------- MODULE FunctionThrottle --------------------------
(***************************************************************************)
(* The per-function concurrency limit of the direct gRPC backend:          *)
(* FunctionThrottle in services/gateway/core/concurrency.py.               *)
(*                                                                         *)
(* acquire() takes a slot or queues a future and awaits it; release()      *)
(* hands its slot to the oldest future.  No task suspends while it owns    *)
(* the condition's lock, so each critical section is one step, and nobody  *)
(* ever sleeps on the condition: release()'s notify() wakes no one.        *)
(*                                                                         *)
(* What makes it hard is the event loop's delay between a future being     *)
(* done and its task running.  A timer or a cancellation completes the     *)
(* future at once ("expired"), but the task takes it off the queue later;  *)
(* and a task whose future got its result ("granted") can still be         *)
(* cancelled or timed out before it runs ("revoked").                      *)
(***************************************************************************)
EXTENDS Integers, SequencesExt

CONSTANTS Callers,  \* slots for concurrent callers
          Limit     \* limit

ASSUME CallersAssumption == IsFiniteSet(Callers)
ASSUME LimitAssumption == Limit \in Nat

VARIABLES current,  \* current
          waiters,  \* waiters: the callers whose futures are queued
          task      \* where each caller's task stands

vars == <<current, waiters, task>>

Places == {"out", "queued", "expired", "granted", "revoked", "holding"}

\* Who owns a slot: its holder, or the caller that it was handed to.
Holders == {c \in Callers : task[c] \in {"granted", "revoked", "holding"}}

Init == /\ current = 0
        /\ waiters = <<>>
        /\ task = [c \in Callers |-> "out"]

----------------------------------------------------------------------------
(* acquire() *)

TakeSlot(c) == /\ task[c] = "out"
               /\ current < Limit
               /\ current' = current + 1
               /\ task' = [task EXCEPT ![c] = "holding"]
               /\ UNCHANGED waiters

Enqueue(c) == /\ task[c] = "out"
              /\ current >= Limit
              /\ waiters' = Append(waiters, c)
              /\ task' = [task EXCEPT ![c] = "queued"]
              /\ UNCHANGED current

\* wait_for()'s timer fires or the task is cancelled: the future is cancelled.
Expire(c) == /\ task[c] = "queued"
             /\ task' = [task EXCEPT ![c] = "expired"]
             /\ UNCHANGED <<current, waiters>>

\* The same, after release() has set the result and before the task runs.
Revoke(c) == /\ task[c] = "granted"
             /\ task' = [task EXCEPT ![c] = "revoked"]
             /\ UNCHANGED <<current, waiters>>

Resume(c) == /\ task[c] = "granted"
             /\ task' = [task EXCEPT ![c] = "holding"]
             /\ UNCHANGED <<current, waiters>>

\* Both except clauses: the future leaves the queue if it is still in it.
WithdrawLeavingFuture(c) ==
  /\ task[c] \in {"expired", "revoked"}
  /\ task' = [task EXCEPT ![c] = "out"]
  /\ UNCHANGED <<current, waiters>>

Withdraw(c) == /\ task[c] \in {"expired", "revoked"}
               /\ IF \E i \in DOMAIN waiters : waiters[i] = c
                  THEN \E i \in DOMAIN waiters :
                         waiters[i] = c /\ waiters' = RemoveAt(waiters, i)
                  ELSE UNCHANGED waiters
               /\ task' = [task EXCEPT ![c] = "out"]
               /\ UNCHANGED current

----------------------------------------------------------------------------
(* release() *)

\* The head of the queue gets the slot, unless its future is done already;
\* either way current stays, since the slot counts as handed over.
HandOverAndCount(c) ==
  /\ task[c] = "holding"
  /\ waiters # <<>>
  /\ waiters' = Tail(waiters)
  /\ task' = [task EXCEPT ![c] = "out",
                          ![Head(waiters)] = IF @ = "queued" THEN "granted" ELSE @]
  /\ current' = current - 1

HandOverToNewest(c) ==
  /\ task[c] = "holding"
  /\ waiters # <<>>
  /\ waiters' = Front(waiters)
  /\ task' = [task EXCEPT ![c] = "out",
                          ![Last(waiters)] = IF @ = "queued" THEN "granted" ELSE @]
  /\ UNCHANGED current

HandOver(c) ==
  /\ task[c] = "holding"
  /\ waiters # <<>>
  /\ waiters' = Tail(waiters)
  /\ task' = [task EXCEPT ![c] = "out",
                          ![Head(waiters)] = IF @ = "queued" THEN "granted" ELSE @]
  /\ UNCHANGED current

FreeSlot(c) == /\ task[c] = "holding"
               /\ waiters = <<>>
               /\ current' = IF current > 0 THEN current - 1 ELSE current
               /\ task' = [task EXCEPT ![c] = "out"]
               /\ UNCHANGED waiters

Release(c) == HandOver(c) \/ FreeSlot(c)

----------------------------------------------------------------------------
Next == \E c \in Callers :
          \/ TakeSlot(c) \/ Enqueue(c)
          \/ Expire(c) \/ Revoke(c) \/ Resume(c) \/ Withdraw(c)
          \/ Release(c)

Spec == Init /\ [][Next]_vars

----------------------------------------------------------------------------
(* Properties *)

\* Types; current stays within the limit.
TypeOK == /\ current \in 0..Limit
          /\ waiters \in Seq(Callers)
          /\ task \in [Callers -> Places]

\* The limit holds, also across hand-overs, where current does not move: the
\* callers that own a slot or have been given one never exceed current, which
\* never exceeds limit.
LimitHolds == Cardinality(Holders) <= current /\ current <= Limit

\* The queue is exact: a future sits in it once, and only while its task is
\* suspended in acquire() or has not yet dealt with its timeout.
QueueExact ==
  /\ \A i, j \in DOMAIN waiters : waiters[i] = waiters[j] => i = j
  /\ \A i \in DOMAIN waiters : task[waiters[i]] \in {"queued", "expired"}
  /\ \A c \in Callers : task[c] = "queued" => \E i \in DOMAIN waiters : waiters[i] = c

\* Strict FIFO ("guarantee FIFO"): nobody gets a slot while another caller,
\* whose future is still pending, has been waiting longer, be it a caller
\* behind it in the queue or a newcomer that finds current below the limit.
ServedInOrder ==
  [][\A c \in Callers :
       /\ task[c] = "out" /\ task'[c] = "holding"
            => \A d \in Callers : task[d] # "queued"
       /\ task[c] = "queued" /\ task'[c] = "granted"
            => \A i, j \in DOMAIN waiters :
                 waiters[j] = c /\ i < j => task[waiters[i]] # "queued"]_vars

\* test_grpc_backend_concurrency.py:76: "If slot is released, the next request
\* should reach EnsureContainer without waiting."  A caller whose future is
\* pending should then find every slot owned.  But a slot vanishes when release()
\* pops a future that is done, and when a task gives up after its future got the
\* result: current keeps counting it.
ReleasedSlotIsUsable ==
  (\E c \in Callers : task[c] = "queued") => Cardinality(Holders) = Limit
=============================================================================
