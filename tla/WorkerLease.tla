----------------------------- MODULE WorkerLease ----------------------------
(***************************************************************************)
(* What a worker pool promises to its callers, without deques, counters,   *)
(* waiting or provisioning: a bounded membership of workers, each of which *)
(* is granted to at most one request at a time, is withdrawn only when     *)
(* nobody holds it, and leaves the hands of a request only by that         *)
(* request's own return or discard.                                        *)
(***************************************************************************)
EXTENDS Integers, FiniteSets

CONSTANTS Requests, Workers, MaxCapacity, NoWorker

VARIABLES members,  \* the workers the pool accounts for
          holds     \* the worker each request holds

vars == <<members, holds>>

Held == {holds[r] : r \in Requests} \ {NoWorker}

Init == members = {} /\ holds = [r \in Requests |-> NoWorker]

\* A request is granted a member that nobody holds ...
GrantMember(r, w) ==
  /\ holds[r] = NoWorker
  /\ w \in members \ Held
  /\ holds' = [holds EXCEPT ![r] = w]
  /\ UNCHANGED members

\* ... or a new worker, when the membership has room for it.
GrantNew(r, w) ==
  /\ holds[r] = NoWorker
  /\ w \in Workers \ (members \cup Held)
  /\ Cardinality(members) < MaxCapacity
  /\ holds' = [holds EXCEPT ![r] = w]
  /\ members' = members \cup {w}

Return(r) == /\ holds[r] # NoWorker
             /\ holds' = [holds EXCEPT ![r] = NoWorker]
             /\ UNCHANGED members

Discard(r) == /\ holds[r] # NoWorker
              /\ holds' = [holds EXCEPT ![r] = NoWorker]
              /\ members' = members \ {holds[r]}

\* Idle members are withdrawn, all of them at the end.
Withdraw(S) == /\ S # {}
               /\ members' = members \ S
               /\ UNCHANGED holds

\* A worker from an earlier life of the system is taken in.
Admit(w) == /\ w \in Workers \ members
            /\ Cardinality(members) < MaxCapacity
            /\ members' = members \cup {w}
            /\ UNCHANGED holds

Next == \/ \E r \in Requests : \/ \E w \in Workers : GrantMember(r, w) \/ GrantNew(r, w)
                               \/ Return(r)
                               \/ Discard(r)
        \/ \E S \in SUBSET (members \ Held) : Withdraw(S)
        \/ \E w \in Workers : Admit(w)

Spec == Init /\ [][Next]_vars
=============================================================================
