---------------------- MODULE OrchestratorClientProofs ----------------------
(***************************************************************************)
(* Single flight for every number of calls and hosts: one leader at a      *)
(* time, and outcomes that agree with the leader's post unless a follower  *)
(* was cancelled.                                                          *)
(***************************************************************************)
EXTENDS OrchestratorClient, TLAPS

CallTypes ==
  /\ cache \in Hosts \cup {None}
  /\ inflight \in Calls \cup {None}
  /\ future \in [Calls -> Hosts \cup Errors \cup {"pending", "cancelled"}]
  /\ call \in [Calls -> {"new", "leading", "following", "ended"}]
  /\ leader \in [Calls -> Calls \cup {None}]
  /\ outcome \in [Calls -> Hosts \cup Errors
                             \cup {None, "CancelledError", "InvalidStateError"}]
  /\ hit \subseteq Calls

\* A follower knows its leader; a call that has not followed has none; who was
\* cancelled has ended.
Roles == \A c \in Calls : /\ call[c] = "following" => leader[c] \in Calls
                          /\ call[c] \in {"new", "leading"} => leader[c] = None
                          /\ c \in hit => call[c] = "ended"

\* A leader's future is still open, or a follower's cancellation has closed it.
Futures ==
  \A c \in Calls :
    /\ call[c] \in {"new", "leading"} => future[c] \in {"pending", "cancelled"}
    /\ future[c] = "cancelled" => FollowerHit(c)

ClientInv == CallTypes /\ Roles /\ OneAsks /\ Futures /\ OutcomesAgree

----------------------------------------------------------------------------
\* The states of a future are neither hosts nor errors.
LEMMA ResultsAreNoStates ==
  /\ "pending" \notin Hosts \cup Errors
  /\ "cancelled" \notin Hosts \cup Errors
  BY HostsAssumption DEF Errors

\* No call has begun.
LEMMA ClientInit == Init => ClientInv
  BY NoneAssumption
  DEF Init, ClientInv, CallTypes, Roles, OneAsks, Futures, OutcomesAgree

\* Evidence of a cancelled follower is kept: hit only grows, and the leader of
\* a call that has ended does not change.
LEMMA EvidenceKept ==
  ASSUME NEW l \in Calls, FollowerHit(l), hit \subseteq hit',
         \A f \in hit : leader'[f] = leader[f]
  PROVE  FollowerHit(l)'
  BY DEF FollowerHit

\* A call that is answered at once, from the cache.
LEMMA CacheHitKeeps ==
  ASSUME ClientInv, NEW c \in Calls, CacheHit(c)
  PROVE  ClientInv'
<1> USE NoneAssumption DEF CacheHit, End
<1>1. CallTypes' /\ Roles' /\ OneAsks'
  BY DEF ClientInv, CallTypes, Roles, OneAsks
<1>2. \A l \in Calls : FollowerHit(l)' <=> FollowerHit(l)
  BY DEF FollowerHit
<1>3. Futures'
  BY <1>2 DEF ClientInv, CallTypes, Futures
<1>4. OutcomesAgree'
  BY <1>2 DEF ClientInv, CallTypes, Roles, OutcomesAgree
<1> QED
  BY <1>1, <1>3, <1>4 DEF ClientInv

\* A call that finds a leader.
LEMMA FollowKeeps ==
  ASSUME ClientInv, NEW c \in Calls, Follow(c)
  PROVE  ClientInv'
<1> USE NoneAssumption DEF Follow
<1>1. CallTypes' /\ Roles' /\ OneAsks'
  BY DEF ClientInv, CallTypes, Roles, OneAsks
<1>2. ASSUME NEW l \in Calls, FollowerHit(l) PROVE FollowerHit(l)'
  <2>1. \A f \in hit : leader'[f] = leader[f]
    BY DEF ClientInv, CallTypes, Roles
  <2> QED
    BY <1>2, <2>1, EvidenceKept
<1>3. Futures'
  BY <1>2 DEF ClientInv, CallTypes, Futures
<1>4. OutcomesAgree'
  BY <1>2 DEF ClientInv, CallTypes, Roles, OutcomesAgree
<1> QED
  BY <1>1, <1>3, <1>4 DEF ClientInv

\* A call that finds none.
LEMMA LeadKeeps ==
  ASSUME ClientInv, NEW c \in Calls, Lead(c)
  PROVE  ClientInv'
<1> USE NoneAssumption DEF Lead
<1>1. CallTypes' /\ Roles' /\ OneAsks'
  BY DEF ClientInv, CallTypes, Roles, OneAsks
<1>2. \A l \in Calls : FollowerHit(l)' <=> FollowerHit(l)
  BY DEF FollowerHit
<1>3. Futures'
  BY <1>2 DEF ClientInv, CallTypes, Futures
<1>4. OutcomesAgree'
  BY <1>2 DEF ClientInv, CallTypes, Roles, OutcomesAgree
<1> QED
  BY <1>1, <1>3, <1>4 DEF ClientInv

\* The leader's post has ended, with a host or with an error.
LEMMA SettleKeeps ==
  ASSUME ClientInv, NEW c \in Calls, call[c] = "leading",
         NEW result \in Hosts \cup Errors, Settle(c, result),
         cache' \in Hosts \cup {None}, UNCHANGED <<leader, hit>>
  PROVE  ClientInv'
<1> USE NoneAssumption, ResultsAreNoStates DEF Settle, End, LeaveInflight
<1>1. CallTypes' /\ Roles' /\ OneAsks'
  BY DEF ClientInv, CallTypes, Roles, OneAsks
<1>2. \A l \in Calls : FollowerHit(l)' <=> FollowerHit(l)
  BY DEF FollowerHit
<1>3. Futures'
  BY <1>2 DEF ClientInv, CallTypes, Futures
<1>4. ASSUME NEW d \in Calls, future[d] # "pending" PROVE future'[d] = future[d]
  BY <1>4 DEF ClientInv, CallTypes
<1>5. leader[c] = None
  BY DEF ClientInv, Roles
<1>6. future[c] # "pending" => FollowerHit(c)
  BY DEF ClientInv, Futures
<1>7. OutcomesAgree'
  BY <1>2, <1>4, <1>5, <1>6 DEF ClientInv, CallTypes, Roles, OutcomesAgree
<1> QED
  BY <1>1, <1>3, <1>7 DEF ClientInv

\* The leader is cancelled: only its own entry in _inflight goes.
LEMMA CancelLeaderKeeps ==
  ASSUME ClientInv, NEW c \in Calls, CancelLeader(c)
  PROVE  ClientInv'
<1> USE NoneAssumption DEF CancelLeader, End, LeaveInflight
<1>1. CallTypes' /\ Roles' /\ OneAsks'
  BY DEF ClientInv, CallTypes, Roles, OneAsks
<1>2. ASSUME NEW l \in Calls, FollowerHit(l) PROVE FollowerHit(l)'
  BY <1>2, EvidenceKept
<1>3. Futures'
  BY <1>2 DEF ClientInv, CallTypes, Futures
<1>4. OutcomesAgree'
  BY <1>2 DEF ClientInv, CallTypes, Roles, OutcomesAgree
<1> QED
  BY <1>1, <1>3, <1>4 DEF ClientInv

\* A follower finds its leader's future done.
LEMMA WakeKeeps ==
  ASSUME ClientInv, NEW c \in Calls, Wake(c)
  PROVE  ClientInv'
<1> USE NoneAssumption, ResultsAreNoStates DEF Wake, End, Settled
<1>1. leader[c] \in Calls /\ future[leader[c]] # "pending"
  BY DEF ClientInv, Roles
<1>2. CallTypes' /\ Roles' /\ OneAsks'
  BY <1>1 DEF ClientInv, CallTypes, Roles, OneAsks
<1>3. \A l \in Calls : FollowerHit(l)' <=> FollowerHit(l)
  BY DEF FollowerHit
<1>4. Futures'
  BY <1>3 DEF ClientInv, CallTypes, Futures
<1>5. future[leader[c]] = "cancelled" => FollowerHit(leader[c])
  BY <1>1 DEF ClientInv, Futures
<1>6. OutcomesAgree'
  BY <1>1, <1>3, <1>5 DEF ClientInv, CallTypes, Roles, OutcomesAgree
<1> QED
  BY <1>2, <1>4, <1>6 DEF ClientInv

\* A follower is cancelled, and the shared future with it.
LEMMA CancelFollowerKeeps ==
  ASSUME ClientInv, NEW c \in Calls, CancelFollower(c)
  PROVE  ClientInv'
<1> USE NoneAssumption, ResultsAreNoStates DEF CancelFollower, End
<1>1. leader[c] \in Calls
  BY DEF ClientInv, Roles
<1>2. CallTypes' /\ Roles' /\ OneAsks'
  BY <1>1 DEF ClientInv, CallTypes, Roles, OneAsks
<1>3. ASSUME NEW l \in Calls, FollowerHit(l) PROVE FollowerHit(l)'
  BY <1>3, EvidenceKept
<1>4. FollowerHit(leader[c])'
  BY DEF FollowerHit
<1>5. Futures'
  BY <1>1, <1>3, <1>4 DEF ClientInv, CallTypes, Futures
<1>6. ASSUME NEW d \in Calls, future[d] # "pending" PROVE future'[d] = future[d]
  BY <1>1, <1>6 DEF ClientInv, CallTypes
<1>7. OutcomesAgree'
  BY <1>1, <1>3, <1>6 DEF ClientInv, CallTypes, Roles, OutcomesAgree
<1> QED
  BY <1>2, <1>5, <1>7 DEF ClientInv

\* Every step of ensure_container() and of the cache keeps the invariant.
LEMMA ClientStep == ClientInv /\ [Next]_vars => ClientInv'
<1> SUFFICES ASSUME ClientInv, [Next]_vars PROVE ClientInv'
  OBVIOUS
<1>1. ASSUME NEW c \in Calls, NEW h \in Hosts, RemoteOk(c, h) PROVE ClientInv'
  BY <1>1, SettleKeeps DEF RemoteOk
<1>2. ASSUME NEW c \in Calls, NEW e \in Errors, RemoteFail(c, e) PROVE ClientInv'
  <2>1. cache' \in Hosts \cup {None}
    BY <1>2 DEF RemoteFail, ClientInv, CallTypes
  <2> QED
    BY <1>2, <2>1, SettleKeeps DEF RemoteFail
<1>3. CASE Forget
  <2>1. \A l \in Calls : FollowerHit(l)' <=> FollowerHit(l)
    BY <1>3 DEF Forget, FollowerHit
  <2> QED
    BY <1>3, <2>1
    DEF Forget, ClientInv, CallTypes, Roles, OneAsks, Futures, OutcomesAgree
<1>4. CASE UNCHANGED vars
  <2>1. \A l \in Calls : FollowerHit(l)' <=> FollowerHit(l)
    BY <1>4 DEF vars, FollowerHit
  <2> QED
    BY <1>4, <2>1
    DEF vars, ClientInv, CallTypes, Roles, OneAsks, Futures, OutcomesAgree
<1> QED
  BY <1>1, <1>2, <1>3, <1>4, CacheHitKeeps, FollowKeeps, LeadKeeps,
     CancelLeaderKeeps, WakeKeeps, CancelFollowerKeeps
  DEF Next, Answer

----------------------------------------------------------------------------
\* At most one call asks the orchestrator, and _inflight names it, for any
\* number of concurrent calls of ensure_container() and any cancellations.
THEOREM OneCallAsks == Spec => []OneAsks
  BY ClientInit, ClientStep, PTL DEF Spec, ClientInv

\* Leader and followers of ensure_container() end alike unless a follower was
\* cancelled, for any number of calls.
THEOREM OutcomesAlwaysAgree == Spec => []OutcomesAgree
  BY ClientInit, ClientStep, PTL DEF Spec, ClientInv
=============================================================================
