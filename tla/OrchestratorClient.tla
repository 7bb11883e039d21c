------------------------- MODULE OrchestratorClient -------------------------
(***************************************************************************)
(* Single flight of container look-ups: OrchestratorClient in              *)
(* services/gateway/client.py with ContainerHostCache                      *)
(* (services/container_cache.py), for one function.                        *)
(*                                                                         *)
(* The first call that misses the cache becomes the leader: it enters a    *)
(* future into _inflight and asks the orchestrator; later calls follow,    *)
(* awaiting the leader's future itself.  No task suspends while it holds   *)
(* _lock, so a call is one step up to the post or to the wait.             *)
(*                                                                         *)
(* Awaiting a shared future has a price: cancelling a follower cancels the *)
(* future.  Each member of Calls is one call, and names the future that it *)
(* creates when it leads.                                                  *)
(***************************************************************************)
EXTENDS Integers, FiniteSets

CONSTANTS Calls, Hosts, None
ASSUME NoneAssumption == None \notin Calls \cup Hosts

\* What _ensure_container_remote() makes of a failed post or a bad answer.
Errors == {"OrchestratorTimeoutError", "OrchestratorUnreachableError",
           "FunctionNotFoundError", "OrchestratorError"}

\* A host is told from a state of the future.
ASSUME HostsAssumption == Hosts \cap {"pending", "cancelled"} = {}

VARIABLES cache,     \* the function's entry, or None
          inflight,  \* the call whose future _inflight holds, or None
          future,    \* future of each leader: "pending", its result, or "cancelled"
          call,      \* "new", "leading", "following", "ended"
          leader,    \* whose future a follower awaits
          outcome,   \* what a call returned or raised
          hit        \* calls that were cancelled from outside

vars == <<cache, inflight, future, call, leader, outcome, hit>>

Init == /\ cache = None
        /\ inflight = None
        /\ future = [c \in Calls |-> "pending"]
        /\ call = [c \in Calls |-> "new"]
        /\ leader = [c \in Calls |-> None]
        /\ outcome = [c \in Calls |-> None]
        /\ hit = {}

End(c, result) == /\ call' = [call EXCEPT ![c] = "ended"]
                  /\ outcome' = [outcome EXCEPT ![c] = result]

----------------------------------------------------------------------------
(* ensure_container() up to its first suspension *)

CacheHit(c) == /\ call[c] = "new"
               /\ cache # None
               /\ End(c, cache)
               /\ UNCHANGED <<cache, inflight, future, leader, hit>>

Follow(c) == /\ call[c] = "new"
             /\ cache = None
             /\ inflight # None
             /\ call' = [call EXCEPT ![c] = "following"]
             /\ leader' = [leader EXCEPT ![c] = inflight]
             /\ UNCHANGED <<cache, inflight, future, outcome, hit>>

LeadWithoutLooking(c) == /\ call[c] = "new"
                         /\ cache = None
                         /\ inflight' = c
                         /\ call' = [call EXCEPT ![c] = "leading"]
                         /\ UNCHANGED <<cache, future, leader, outcome, hit>>

Lead(c) == /\ call[c] = "new"
           /\ cache = None
           /\ inflight = None
           /\ inflight' = c
           /\ call' = [call EXCEPT ![c] = "leading"]
           /\ UNCHANGED <<cache, future, leader, outcome, hit>>

----------------------------------------------------------------------------
(* The leader *)

\* The finally block.
LeaveInflight(c) == inflight' = IF inflight = c THEN None ELSE inflight

\* set_result() or set_exception() on a future that a follower has cancelled
\* raises InvalidStateError, which becomes the leader's own outcome.
Settle(c, result) ==
  /\ future' = [future EXCEPT ![c] = IF @ = "pending" THEN result ELSE @]
  /\ End(c, IF future[c] = "pending" THEN result ELSE "InvalidStateError")
  /\ LeaveInflight(c)

RemoteOk(c, h) == /\ call[c] = "leading"
                  /\ cache' = h
                  /\ Settle(c, h)
                  /\ UNCHANGED <<leader, hit>>

RemoteFailSilently(c, e) == /\ call[c] = "leading"
                            /\ End(c, e)
                            /\ LeaveInflight(c)
                            /\ UNCHANGED <<cache, future, leader, hit>>

RemoteFail(c, e) == /\ call[c] = "leading"
                    /\ Settle(c, e)
                    /\ UNCHANGED <<cache, leader, hit>>

CancelLeaderAndFuture(c) ==
  /\ call[c] = "leading"
  /\ End(c, "CancelledError")
  /\ future' = [future EXCEPT ![c] = "cancelled"]
  /\ LeaveInflight(c)
  /\ hit' = hit \cup {c}
  /\ UNCHANGED <<cache, leader>>

\* CancelledError passes `except Exception`: the future stays pending for ever.
CancelLeader(c) ==
  /\ call[c] = "leading"
  /\ End(c, "CancelledError")
  /\ LeaveInflight(c)
  /\ hit' = hit \cup {c}
  /\ UNCHANGED <<cache, future, leader>>

----------------------------------------------------------------------------
(* Followers *)

Settled(c) == future[leader[c]] # "pending"

Wake(c) ==
  /\ call[c] = "following"
  /\ Settled(c)
  /\ End(c, IF future[leader[c]] = "cancelled" THEN "CancelledError"
            ELSE future[leader[c]])
  /\ UNCHANGED <<cache, inflight, future, leader, hit>>

\* Task.cancel() cancels the future that the task awaits, for everyone.
CancelFollower(c) ==
  /\ call[c] = "following"
  /\ End(c, "CancelledError")
  /\ future' = [future EXCEPT ![leader[c]] = IF @ = "pending" THEN "cancelled" ELSE @]
  /\ hit' = hit \cup {c}
  /\ UNCHANGED <<cache, inflight, leader>>

----------------------------------------------------------------------------
\* The entry reaches its TTL, makes room for another function's, or is removed by
\* invalidate_cache() or clear().
Forget == /\ cache # None
          /\ cache' = None
          /\ UNCHANGED <<inflight, future, call, leader, outcome, hit>>

Answer(c) == (\E h \in Hosts : RemoteOk(c, h)) \/ (\E e \in Errors : RemoteFail(c, e))

Next == \/ \E c \in Calls : \/ CacheHit(c) \/ Follow(c) \/ Lead(c)
                            \/ Answer(c) \/ CancelLeader(c)
                            \/ Wake(c) \/ CancelFollower(c)
        \/ Forget

\* The post has a time-out, and a task whose future is done runs.
Fairness == \A c \in Calls : WF_vars(Answer(c)) /\ WF_vars(Wake(c))

Spec == Init /\ [][Next]_vars /\ Fairness

----------------------------------------------------------------------------
(* Properties *)

\* "Coalesce concurrent requests into a single Manager call": whatever is
\* cancelled or forgotten meanwhile, at most one call is asking the
\* orchestrator, and _inflight names it.
OneAsks == \A c \in Calls : call[c] = "leading" <=> inflight = c

FollowerHit(l) == \E f \in hit : leader[f] = l

\* "Errors propagate to all waiters", and so do hosts: a follower ends with what
\* the leader's post gave, and the leader too, unless some follower of the same
\* leader was cancelled.  Only then may a call that nobody cancelled end with
\* CancelledError, or a leader with InvalidStateError.
OutcomesAgree ==
  \A c \in Calls :
    call[c] = "ended" /\ c \notin hit =>
      \/ outcome[c] \in Hosts \cup Errors
           /\ (leader[c] # None => outcome[c] = future[leader[c]])
      \/ outcome[c] = "CancelledError" /\ leader[c] # None /\ FollowerHit(leader[c])
      \/ outcome[c] = "InvalidStateError" /\ leader[c] = None /\ FollowerHit(c)

\* A call always ends, though the cache and the leader may change under it,
\* except for the followers of a leader that was cancelled: nobody completes
\* their future, and they have no time-out.
FollowersEnd ==
  \A c \in Calls : call[c] \in {"leading", "following"}
                     ~> call[c] = "ended" \/ leader[c] \in hit
=============================================================================
