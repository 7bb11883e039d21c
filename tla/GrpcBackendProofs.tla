--------------------------- MODULE GrpcBackendProofs ---------------------------
(***************************************************************************)
(* The throttle keeps its limit for every number of callers, although      *)
(* slots are handed from task to task without touching the counter.        *)
(* The argument counts owners: a hand-over replaces one owner by at most   *)
(* one other, and only a caller that finds room adds one.                  *)
(*                                                                         *)
(* The backend on top of it loses slots, and every lost one is accounted   *)
(* for.  Its janitor decides by stale data, and still takes no container   *)
(* from a caller: what it once found too old is not handed out again.      *)
(***************************************************************************)
EXTENDS GrpcBackend, FiniteSetTheorems, SequenceTheorems, TLAPS

ThrottleInv == TypeOK /\ LimitHolds

----------------------------------------------------------------------------
LEMMA HoldersFinite == IsFiniteSet(Holders)
<1>1. Holders \subseteq Callers
  BY DEF Holders
<1> QED
  BY <1>1, CallersAssumption, FS_Subset

LEMMA HoldersFinitePrime == IsFiniteSet(Holders')
<1>1. Holders' \subseteq Callers
  BY DEF Holders
<1> QED
  BY <1>1, CallersAssumption, FS_Subset

LEMMA OneMore ==
  ASSUME NEW S, NEW x, IsFiniteSet(S)
  PROVE  /\ IsFiniteSet(S \cup {x})
         /\ Cardinality(S \cup {x}) \in Nat
         /\ Cardinality(S \cup {x}) <= Cardinality(S) + 1
<1>1. Cardinality(S) \in Nat
  BY FS_CardinalityType
<1>2. /\ IsFiniteSet(S \cup {x})
      /\ Cardinality(S \cup {x}) = IF x \in S THEN Cardinality(S) ELSE Cardinality(S) + 1
  BY FS_AddElement
<1> QED
  BY <1>1, <1>2

LEMMA ThrottleInit == Init => ThrottleInv
<1> SUFFICES ASSUME Init PROVE ThrottleInv
  OBVIOUS
<1>1. Holders = {}
  BY DEF Init, Holders
<1>2. Cardinality(Holders) = 0
  BY <1>1, FS_EmptySet
<1>3. TypeOK
  BY LimitAssumption DEF Init, TypeOK, Places
<1> QED
  BY <1>2, <1>3, LimitAssumption DEF Init, ThrottleInv, LimitHolds

\* Steps that do not add an owner and leave the counter alone.
LEMMA NoNewOwner ==
  ASSUME ThrottleInv, TypeOK', current' = current, Holders' \subseteq Holders
  PROVE  ThrottleInv'
<1>1. /\ Cardinality(Holders) \in Nat
      /\ Cardinality(Holders') \in Nat
      /\ Cardinality(Holders') <= Cardinality(Holders)
  BY HoldersFinite, HoldersFinitePrime, FS_Subset, FS_CardinalityType
<1>2. Cardinality(Holders)' = Cardinality(Holders')
  OBVIOUS
<1> QED
  BY <1>1, <1>2, LimitAssumption DEF ThrottleInv, LimitHolds, TypeOK

\* A holder that leaves makes room for one.
LEMMA OwnerLeaves ==
  ASSUME NEW c \in Callers, task[c] = "holding"
  PROVE  /\ IsFiniteSet(Holders \ {c})
         /\ Cardinality(Holders) \in Nat
         /\ Cardinality(Holders \ {c}) = Cardinality(Holders) - 1
         /\ Cardinality(Holders) > 0
<1>1. c \in Holders
  BY DEF Holders
<1>2. /\ IsFiniteSet(Holders \ {c})
      /\ Cardinality(Holders \ {c}) = Cardinality(Holders) - 1
  BY <1>1, HoldersFinite, FS_RemoveElement
<1>3. Cardinality(Holders) \in Nat /\ Cardinality(Holders \ {c}) \in Nat
  BY <1>2, HoldersFinite, FS_CardinalityType
<1> QED
  BY <1>2, <1>3

LEMMA ThrottleStep == ThrottleInv /\ [Next]_vars => ThrottleInv'
<1> SUFFICES ASSUME ThrottleInv, [Next]_vars PROVE ThrottleInv'
  OBVIOUS
<1>types. TypeOK
  BY DEF ThrottleInv
<1>1. ASSUME NEW c \in Callers, TakeSlot(c) PROVE ThrottleInv'
  <2>1. TypeOK'
    BY <1>types, <1>1, LimitAssumption DEF TakeSlot, TypeOK, Places
  <2>2. Holders' = Holders \cup {c}
    BY <1>types, <1>1 DEF TakeSlot, TypeOK, Holders
  <2>3. c \notin Holders
    BY <1>1 DEF TakeSlot, Holders
  <2>4. Cardinality(Holders') = Cardinality(Holders) + 1
    BY <2>2, <2>3, HoldersFinite, FS_AddElement
  <2>5. Cardinality(Holders) \in Nat
    BY HoldersFinite, FS_CardinalityType
  <2>6. Cardinality(Holders') <= current' /\ current' <= Limit
    BY <1>1, <2>4, <2>5, <1>types, LimitAssumption
    DEF TakeSlot, TypeOK, ThrottleInv, LimitHolds
  <2> QED
    BY <2>1, <2>6 DEF ThrottleInv, LimitHolds
<1>2. ASSUME NEW c \in Callers, Enqueue(c) PROVE ThrottleInv'
  <2>1. TypeOK'
    BY <1>types, <1>2 DEF Enqueue, TypeOK, Places
  <2>2. Holders' \subseteq Holders
    BY <1>types, <1>2 DEF Enqueue, TypeOK, Holders
  <2> QED
    BY <1>2, <2>1, <2>2, NoNewOwner DEF Enqueue
<1>3. ASSUME NEW c \in Callers, Expire(c) \/ Revoke(c) \/ Resume(c) PROVE ThrottleInv'
  <2>1. TypeOK' /\ current' = current
    BY <1>types, <1>3 DEF Expire, Revoke, Resume, TypeOK, Places
  <2>2. Holders' \subseteq Holders
    BY <1>types, <1>3 DEF Expire, Revoke, Resume, TypeOK, Holders
  <2> QED
    BY <2>1, <2>2, NoNewOwner
<1>4. ASSUME NEW c \in Callers, Withdraw(c) PROVE ThrottleInv'
  <2>1. waiters' \in Seq(Callers)
    <3>1. ASSUME NEW i \in DOMAIN waiters PROVE RemoveAt(waiters, i) \in Seq(Callers)
      BY <1>types, <3>1 DEF RemoveAt, TypeOK
    <3> QED
      BY <1>types, <1>4, <3>1 DEF Withdraw, TypeOK
  <2>2. TypeOK' /\ current' = current
    BY <1>types, <1>4, <2>1 DEF Withdraw, TypeOK, Places
  <2>3. Holders' \subseteq Holders
    BY <1>types, <1>4 DEF Withdraw, TypeOK, Holders
  <2> QED
    BY <2>2, <2>3, NoNewOwner
<1>5. ASSUME NEW c \in Callers, HandOver(c) PROVE ThrottleInv'
  <2> DEFINE h == Head(waiters)
  <2>1. h \in Callers /\ Tail(waiters) \in Seq(Callers)
    BY <1>types, <1>5 DEF HandOver, TypeOK
  <2>2. TypeOK' /\ current' = current
    BY <1>types, <1>5, <2>1 DEF HandOver, TypeOK, Places
  <2>3. Holders' \subseteq (Holders \ {c}) \cup {h}
    BY <1>types, <1>5 DEF HandOver, TypeOK, Holders
  <2>4. /\ IsFiniteSet(Holders \ {c})
        /\ Cardinality(Holders) \in Nat
        /\ Cardinality(Holders \ {c}) = Cardinality(Holders) - 1
    BY <1>5, OwnerLeaves DEF HandOver
  <2>5. /\ IsFiniteSet((Holders \ {c}) \cup {h})
        /\ Cardinality((Holders \ {c}) \cup {h}) <= Cardinality(Holders)
        /\ Cardinality((Holders \ {c}) \cup {h}) \in Nat
    <3>1. /\ IsFiniteSet((Holders \ {c}) \cup {h})
          /\ Cardinality((Holders \ {c}) \cup {h}) \in Nat
          /\ Cardinality((Holders \ {c}) \cup {h}) <= Cardinality(Holders \ {c}) + 1
      BY <2>4, OneMore
    <3> QED
      BY <2>4, <3>1
  <2>6. /\ Cardinality(Holders') \in Nat
        /\ Cardinality(Holders') <= Cardinality((Holders \ {c}) \cup {h})
    BY <2>3, <2>5, FS_Subset, FS_CardinalityType
  <2>7. Cardinality(Holders') <= current' /\ current' <= Limit
    BY <2>2, <2>4, <2>5, <2>6, <1>types, LimitAssumption DEF TypeOK, ThrottleInv, LimitHolds
  <2> QED
    BY <2>2, <2>7 DEF ThrottleInv, LimitHolds
<1>6. ASSUME NEW c \in Callers, FreeSlot(c) PROVE ThrottleInv'
  <2>1. /\ Cardinality(Holders) \in Nat
        /\ Cardinality(Holders \ {c}) = Cardinality(Holders) - 1
        /\ Cardinality(Holders) > 0
    BY <1>6, OwnerLeaves DEF FreeSlot
  <2>2. current > 0 /\ current' = current - 1
    BY <1>6, <1>types, <2>1, LimitAssumption DEF FreeSlot, TypeOK, ThrottleInv, LimitHolds
  <2>3. TypeOK'
    BY <1>types, <1>6, <2>2, LimitAssumption DEF FreeSlot, TypeOK, Places
  <2>4. Holders' = Holders \ {c}
    BY <1>types, <1>6 DEF FreeSlot, TypeOK, Holders
  <2>5. Cardinality(Holders') <= current' /\ current' <= Limit
    BY <2>1, <2>2, <2>4, <1>types, LimitAssumption DEF TypeOK, ThrottleInv, LimitHolds
  <2> QED
    BY <2>3, <2>5 DEF ThrottleInv, LimitHolds
<1>7. CASE UNCHANGED vars
  <2>1. TypeOK' /\ current' = current /\ Holders' \subseteq Holders
    BY <1>types, <1>7 DEF vars, TypeOK, Holders
  <2> QED
    BY <2>1, NoNewOwner
<1> QED
  BY <1>1, <1>2, <1>3, <1>4, <1>5, <1>6, <1>7 DEF Next, Release

----------------------------------------------------------------------------
(* The queue *)

\* While futures are queued no slot is free for a newcomer.
NoBarging == waiters # <<>> => current = Limit

QueueInv == QueueExact /\ NoBarging

\* What is left of a sequence when its k-th element is removed.
LEMMA RemoveAtProperties ==
  ASSUME NEW S, NEW s \in Seq(S), NEW k \in 1..Len(s)
  PROVE  /\ RemoveAt(s, k) \in Seq(S)
         /\ Len(RemoveAt(s, k)) = Len(s) - 1
         /\ \A i \in 1..(Len(s) - 1) :
              RemoveAt(s, k)[i] = IF i < k THEN s[i] ELSE s[i + 1]
<1> DEFINE a == SubSeq(s, 1, k - 1)
           b == SubSeq(s, k + 1, Len(s))
<1>1. Len(s) \in Nat /\ k \in Nat
  OBVIOUS
<1>2. /\ a \in Seq(S) /\ Len(a) = k - 1
      /\ \A i \in 1..(k - 1) : a[i] = s[i]
  BY <1>1
<1>3. /\ b \in Seq(S) /\ Len(b) = Len(s) - k
      /\ \A i \in 1..(Len(s) - k) : b[i] = s[i + k]
  BY <1>1
<1>4. RemoveAt(s, k) = a \o b
  BY DEF RemoveAt
<1> HIDE DEF a, b
<1>5. a \o b \in Seq(S) /\ Len(a \o b) = Len(s) - 1
  <2>1. a \o b \in Seq(S)
    BY <1>2, <1>3
  <2>2. Len(a \o b) = Len(a) + Len(b)
    BY <1>2, <1>3, ConcatProperties, Zenon
  <2> QED
    BY <1>1, <1>2, <1>3, <2>1, <2>2
<1>6. ASSUME NEW i \in 1..(Len(s) - 1)
      PROVE  (a \o b)[i] = IF i < k THEN s[i] ELSE s[i + 1]
  <2>1. CASE i < k
    BY <1>1, <1>2, <1>3, <2>1
  <2>2. CASE i >= k
    <3>1. i - (k - 1) \in 1..(Len(s) - k) /\ (i - (k - 1)) + k = i + 1
      BY <1>1, <2>2
    <3>2. (a \o b)[i] = b[i - (k - 1)]
      BY <1>1, <1>2, <1>3, <2>2
    <3> QED
      BY <1>1, <1>3, <2>2, <3>1, <3>2
  <2>3. i < k \/ i >= k
    BY <1>1
  <2> QED
    BY <2>1, <2>2, <2>3, Zenon
<1> QED
  BY <1>4, <1>5, <1>6

LEMMA QueueInit == Init => QueueInv
  BY DEF Init, QueueInv, QueueExact, NoBarging

LEMMA QueueStep == TypeOK /\ QueueInv /\ [Next]_vars => QueueInv'
<1> SUFFICES ASSUME TypeOK, QueueInv, [Next]_vars PROVE QueueInv'
  OBVIOUS
<1>0. /\ waiters \in Seq(Callers) /\ current \in 0..Limit /\ task \in [Callers -> Places]
      /\ DOMAIN waiters = 1..Len(waiters) /\ Len(waiters) \in Nat
      /\ \A i \in 1..Len(waiters) : waiters[i] \in Callers
  BY DEF TypeOK
<1>unique. \A i, j \in 1..Len(waiters) : waiters[i] = waiters[j] => i = j
  BY <1>0 DEF QueueInv, QueueExact
<1>pending. \A i \in 1..Len(waiters) : task[waiters[i]] \in {"queued", "expired"}
  BY <1>0 DEF QueueInv, QueueExact
<1>1. ASSUME NEW c \in Callers, TakeSlot(c) PROVE QueueInv'
  <2>1. waiters = <<>> /\ waiters' = <<>>
    BY <1>1, <1>0, LimitAssumption DEF TakeSlot, QueueInv, NoBarging
  <2>2. task' = [task EXCEPT ![c] = "holding"]
    BY <1>1 DEF TakeSlot
  <2> QED
    BY <1>0, <2>1, <2>2 DEF QueueInv, QueueExact, NoBarging
<1>2. ASSUME NEW c \in Callers, Enqueue(c) PROVE QueueInv'
  <2>1. /\ Len(waiters') = Len(waiters) + 1 /\ DOMAIN waiters' = 1..Len(waiters')
        /\ waiters'[Len(waiters')] = c
        /\ \A i \in 1..Len(waiters) : waiters'[i] = waiters[i]
    BY <1>0, <1>2 DEF Enqueue
  <2>2. \A i \in 1..Len(waiters) : waiters[i] # c
    BY <1>0, <1>2 DEF Enqueue, QueueInv, QueueExact
  <2>3. task' = [task EXCEPT ![c] = "queued"] /\ current' = current /\ current = Limit
    BY <1>0, <1>2, LimitAssumption DEF Enqueue
  <2> QED
    BY <1>0, <2>1, <2>2, <2>3 DEF QueueInv, QueueExact, NoBarging
<1>3. ASSUME NEW c \in Callers, Expire(c) \/ Revoke(c) \/ Resume(c) PROVE QueueInv'
  BY <1>0, <1>3 DEF Expire, Revoke, Resume, QueueInv, QueueExact, NoBarging
<1>4. ASSUME NEW c \in Callers, Withdraw(c) PROVE QueueInv'
  <2>1. CASE \E i \in DOMAIN waiters : waiters[i] = c
    <3>1. PICK k \in 1..Len(waiters) : waiters[k] = c /\ waiters' = RemoveAt(waiters, k)
      BY <1>0, <1>4, <2>1 DEF Withdraw
    <3>2. /\ Len(waiters') = Len(waiters) - 1 /\ DOMAIN waiters' = 1..Len(waiters')
          /\ \A i \in 1..Len(waiters') : waiters'[i] = IF i < k THEN waiters[i] ELSE waiters[i + 1]
      <4>1. /\ waiters' \in Seq(Callers) /\ Len(waiters') = Len(waiters) - 1
            /\ \A i \in 1..(Len(waiters) - 1) :
                 waiters'[i] = IF i < k THEN waiters[i] ELSE waiters[i + 1]
        BY <1>0, <3>1, RemoveAtProperties
      <4>2. DOMAIN waiters' = 1..Len(waiters')
        BY <4>1
      <4> QED
        BY <4>1, <4>2
    <3>3. \A i \in 1..Len(waiters) : i # k => waiters[i] # c
      BY <1>0, <3>1 DEF QueueInv, QueueExact
    <3>4. task' = [task EXCEPT ![c] = "out"] /\ current' = current
      BY <1>4 DEF Withdraw
    <3>5. waiters # <<>>
      BY <1>0, <3>1
    <3>6. \A i, j \in DOMAIN waiters' : waiters'[i] = waiters'[j] => i = j
      BY <1>0, <1>unique, <3>1, <3>2
    <3>7. \A i \in DOMAIN waiters' : task'[waiters'[i]] \in {"queued", "expired"}
      <4> SUFFICES ASSUME NEW i \in 1..Len(waiters')
                   PROVE  task'[waiters'[i]] \in {"queued", "expired"}
        BY <3>2
      <4>1. PICK n \in 1..Len(waiters) : n # k /\ waiters'[i] = waiters[n]
        <5>1. CASE i < k
          BY <1>0, <3>1, <3>2, <5>1
        <5>2. CASE i >= k
          <6>1. i + 1 \in 1..Len(waiters) /\ i + 1 # k /\ waiters'[i] = waiters[i + 1]
            BY <1>0, <3>1, <3>2, <5>2
          <6> QED
            BY <6>1
        <5> QED
          BY <1>0, <3>1, <3>2, <5>1, <5>2
      <4> QED
        BY <1>0, <1>pending, <3>3, <3>4, <4>1
    <3>8. ASSUME NEW d \in Callers, task'[d] = "queued"
          PROVE  \E i \in DOMAIN waiters' : waiters'[i] = d
      <4>1. d # c /\ task[d] = "queued"
        BY <1>0, <3>4, <3>8
      <4>2. PICK j \in 1..Len(waiters) : waiters[j] = d
        BY <1>0, <4>1 DEF QueueInv, QueueExact
      <4>3. CASE j < k
        BY <1>0, <3>1, <3>2, <4>2, <4>3
      <4>4. CASE j > k
        <5>1. j - 1 \in 1..Len(waiters') /\ waiters'[j - 1] = d
          BY <1>0, <3>1, <3>2, <4>2, <4>4
        <5> QED
          BY <3>2, <5>1
      <4> QED
        BY <1>0, <3>1, <4>1, <4>2, <4>3, <4>4
    <3> QED
      BY <3>4, <3>5, <3>6, <3>7, <3>8 DEF QueueInv, QueueExact, NoBarging
  <2>2. CASE ~ \E i \in DOMAIN waiters : waiters[i] = c
    <3>1. waiters' = waiters /\ current' = current /\ task' = [task EXCEPT ![c] = "out"]
      BY <1>4, <2>2 DEF Withdraw
    <3> QED
      BY <1>0, <2>2, <3>1 DEF QueueInv, QueueExact, NoBarging
  <2> QED
    BY <2>1, <2>2
<1>5. ASSUME NEW c \in Callers, HandOver(c) PROVE QueueInv'
  <2> DEFINE h == Head(waiters)
  <2>1. /\ waiters # <<>> /\ waiters' = Tail(waiters) /\ current' = current
        /\ task[c] = "holding"
        /\ task' = [task EXCEPT ![c] = "out", ![h] = IF @ = "queued" THEN "granted" ELSE @]
    BY <1>5 DEF HandOver
  <2>2. /\ Len(waiters') = Len(waiters) - 1 /\ DOMAIN waiters' = 1..Len(waiters')
        /\ \A i \in 1..Len(waiters') : waiters'[i] = waiters[i + 1]
        /\ h = waiters[1] /\ 1 \in 1..Len(waiters) /\ h \in Callers
    BY <1>0, <2>1
  <2>3. \A i \in 1..Len(waiters) : waiters[i] # c /\ (i # 1 => waiters[i] # h)
    BY <1>0, <2>1, <2>2 DEF QueueInv, QueueExact
  <2>4. \A d \in Callers : d \notin {c, h} => task'[d] = task[d]
    BY <1>0, <2>1, <2>2
  <2>5. task'[c] # "queued" /\ task'[h] # "queued"
    BY <1>0, <2>1, <2>2
  <2>6. \A i, j \in DOMAIN waiters' : waiters'[i] = waiters'[j] => i = j
    BY <1>0, <1>unique, <2>2
  <2>7. ASSUME NEW i \in DOMAIN waiters' PROVE task'[waiters'[i]] \in {"queued", "expired"}
    <3>1. i + 1 \in 1..Len(waiters) /\ i + 1 # 1 /\ waiters'[i] = waiters[i + 1]
      BY <1>0, <2>2, <2>7
    <3>2. waiters[i + 1] \in Callers \ {c, h}
      BY <1>0, <2>3, <3>1
    <3> QED
      BY <1>0, <2>4, <3>1, <3>2 DEF QueueInv, QueueExact
  <2>8. ASSUME NEW d \in Callers, task'[d] = "queued"
        PROVE  \E i \in DOMAIN waiters' : waiters'[i] = d
    <3>1. d \notin {c, h} /\ task[d] = "queued"
      BY <2>4, <2>5, <2>8
    <3>2. PICK j \in 1..Len(waiters) : waiters[j] = d
      BY <1>0, <3>1 DEF QueueInv, QueueExact
    <3>3. j - 1 \in 1..Len(waiters') /\ waiters'[j - 1] = d
      BY <1>0, <2>2, <3>1, <3>2
    <3> QED
      BY <2>2, <3>3
  <2> QED
    BY <2>1, <2>6, <2>7, <2>8 DEF QueueInv, QueueExact, NoBarging
<1>6. ASSUME NEW c \in Callers, FreeSlot(c) PROVE QueueInv'
  <2>1. waiters = <<>> /\ waiters' = <<>> /\ task' = [task EXCEPT ![c] = "out"]
    BY <1>6 DEF FreeSlot
  <2> QED
    BY <1>0, <2>1 DEF QueueInv, QueueExact, NoBarging
<1>7. CASE UNCHANGED vars
  BY <1>7 DEF vars, QueueInv, QueueExact, NoBarging
<1> QED
  BY <1>1, <1>2, <1>3, <1>4, <1>5, <1>6, <1>7 DEF Next, Release

\* What a step may do to the order, given the queue's invariant.
ServedInOrderStep ==
  \A c \in Callers :
    /\ task[c] = "out" /\ task'[c] = "holding" => \A d \in Callers : task[d] # "queued"
    /\ task[c] = "queued" /\ task'[c] = "granted"
         => \A i, j \in DOMAIN waiters :
              waiters[j] = c /\ i < j => task[waiters[i]] # "queued"

LEMMA OrderStep == TypeOK /\ QueueInv /\ [Next]_vars => ServedInOrderStep
<1> SUFFICES ASSUME TypeOK, QueueInv, [Next]_vars, NEW c \in Callers
             PROVE  /\ task[c] = "out" /\ task'[c] = "holding"
                         => \A d \in Callers : task[d] # "queued"
                    /\ task[c] = "queued" /\ task'[c] = "granted"
                         => \A i, j \in DOMAIN waiters :
                              waiters[j] = c /\ i < j => task[waiters[i]] # "queued"
  BY DEF ServedInOrderStep
<1>1. ASSUME task[c] = "out", task'[c] = "holding" PROVE \A d \in Callers : task[d] # "queued"
  <2>1. TakeSlot(c)
    BY <1>1 DEF TypeOK, Next, vars, TakeSlot, Enqueue, Expire, Revoke, Resume, Withdraw,
                Release, HandOver, FreeSlot
  <2>2. waiters = <<>>
    BY <2>1, LimitAssumption DEF TakeSlot, QueueInv, NoBarging, TypeOK
  <2> QED
    BY <2>2 DEF QueueInv, QueueExact
<1>2. ASSUME task[c] = "queued", task'[c] = "granted",
             NEW i \in DOMAIN waiters, NEW j \in DOMAIN waiters, waiters[j] = c, i < j
      PROVE  task[waiters[i]] # "queued"
  <2>1. c = Head(waiters) /\ waiters # <<>>
    BY <1>2 DEF TypeOK, Next, vars, TakeSlot, Enqueue, Expire, Revoke, Resume, Withdraw,
                Release, HandOver, FreeSlot
  <2>2. 1 \in DOMAIN waiters /\ waiters[1] = c /\ i \in Nat /\ i >= 1
    BY <2>1 DEF TypeOK
  <2>3. j = 1
    BY <1>2, <2>2 DEF QueueInv, QueueExact
  <2> QED
    BY <1>2, <2>2, <2>3
<1> QED
  BY <1>1, <1>2

----------------------------------------------------------------------------
(* Theorems about the throttle *)

\* The callers that own a slot never exceed the counter, nor the counter the
\* limit, whatever times out, is cancelled or is handed over in between.
THEOREM LimitIsKept == Spec => []LimitHolds
<1>1. ThrottleInv => LimitHolds
  BY DEF ThrottleInv
<1> QED
  BY ThrottleInit, ThrottleStep, <1>1, PTL DEF Spec

\* The queue holds each pending future once and no future of a task that has
\* left acquire().
THEOREM QueueIsExact == Spec => []QueueExact
<1>1. ThrottleInv => TypeOK
  BY DEF ThrottleInv
<1>2. QueueInv => QueueExact
  BY DEF QueueInv
<1> QED
  BY ThrottleInit, ThrottleStep, QueueInit, QueueStep, <1>1, <1>2, PTL DEF Spec

\* Slots are given out in the order of arrival, for any number of callers.
THEOREM OrderIsFIFO == Spec => ServedInOrder
<1>1. ThrottleInv => TypeOK
  BY DEF ThrottleInv
<1>2. TypeOK /\ QueueInv /\ [Next]_vars => [ServedInOrderStep]_vars
  BY OrderStep
<1>3. Spec => [][ServedInOrderStep]_vars
  BY ThrottleInit, ThrottleStep, QueueInit, QueueStep, <1>1, <1>2, PTL DEF Spec
<1> QED
  BY <1>3 DEF ServedInOrder, ServedInOrderStep

----------------------------------------------------------------------------
(* The backend's use of the throttle *)

\* A caller with work to do owns its slot; at boot nobody has any.
WorkHasSlot == /\ work \in [Callers -> {"none", "ensuring", "starting", "invoking"}]
               /\ \A c \in Callers : work[c] # "none" => task[c] = "holding"
               /\ job \in {"boot", "boot_evict"} => \A c \in Callers : work[c] = "none"

Slots == leaks \in Nat /\ SlotsAccountedFor

\* c leaves and its slot stays counted.
SlotKept(c) == /\ task[c] = "holding"
               /\ task' = [task EXCEPT ![c] = "out"]
               /\ UNCHANGED <<current, waiters>>

SlotInv == ThrottleInv /\ QueueInv /\ WorkHasSlot /\ Slots

\* What the backend does to the throttle: its own operations, or a slot kept.
LEMMA ThrottleUse ==
  ASSUME SlotInv, [BackendNext]_backendVars
  PROVE  [Next]_vars \/ \E c \in Callers : SlotKept(c)
<1>1. ASSUME NEW c \in Callers, CallerEnds(c) PROVE Next \/ SlotKept(c)
  <2>1. task[c] = "holding"
    BY <1>1 DEF SlotInv, WorkHasSlot, CallerEnds, AcquireFails, AcquireCancelled,
                ReleaseWorker, EvictWorker, EvictCancelled
  <2> QED
    BY <1>1, <2>1 DEF CallerEnds, AcquireFails, AcquireCancelled, ReleaseWorker, EvictWorker,
                      EvictCancelled,
                      ReturnSlot, KeepSlot, SlotKept, Next
<1>2. ASSUME NEW c \in Callers, GotSlot(c) \/ Queueing(c) \/ GiveUp(c) PROVE Next
  BY <1>2 DEF GotSlot, Queueing, GiveUp, Next
<1>3. ASSUME NEW c \in Callers, Ready(c) \/ \E w \in Workers : Ensured(c, w)
      PROVE  UNCHANGED vars
  BY <1>3 DEF Ready, Ensured
<1>4. ASSUME \/ StartupList \/ RoundStart \/ ListWorkers \/ ListFails \/ RoundDone \/ Tick
             \/ \E w \in Workers : EvictOk(w) \/ EvictFails(w) \/ Stop(w)
             \/ UNCHANGED backendVars
      PROVE  UNCHANGED vars
  BY <1>4 DEF StartupList, RoundStart, ListWorkers, ListFails, RoundDone, Tick, EvictOk,
              EvictFails, Stop, backendVars
<1> QED
  BY <1>1, <1>2, <1>3, <1>4 DEF BackendNext

\* A slot that is kept disturbs neither the limit nor the queue.
LEMMA SlotKeptPreserves ==
  ASSUME ThrottleInv, QueueInv, NEW c \in Callers, SlotKept(c)
  PROVE  ThrottleInv' /\ QueueInv'
<1>1. TypeOK /\ task \in [Callers -> Places]
  BY DEF ThrottleInv, TypeOK
<1>2. TypeOK' /\ current' = current
  BY <1>1 DEF SlotKept, TypeOK, Places
<1>3. Holders' \subseteq Holders
  BY <1>1 DEF SlotKept, Holders
<1>4. ThrottleInv'
  BY <1>2, <1>3, NoNewOwner
<1>5. QueueInv'
  BY <1>1 DEF SlotKept, QueueInv, QueueExact, NoBarging, TypeOK
<1> QED
  BY <1>4, <1>5

LEMMA UseKeepsThrottle ==
  ASSUME SlotInv, [BackendNext]_backendVars
  PROVE  ThrottleInv' /\ QueueInv'
<1>1. ASSUME [Next]_vars PROVE ThrottleInv' /\ QueueInv'
  BY <1>1, ThrottleStep, QueueStep DEF SlotInv, ThrottleInv
<1> QED
  BY <1>1, ThrottleUse, SlotKeptPreserves DEF SlotInv

----------------------------------------------------------------------------
(* Counting slots *)

\* One caller more or less that owns a slot.
LEMMA OwnerGone ==
  ASSUME NEW c \in Callers, c \in Holders, Holders' = Holders \ {c}
  PROVE  /\ Cardinality(Holders') = Cardinality(Holders) - 1
         /\ Cardinality(Holders) \in Nat /\ Cardinality(Holders) > 0
<1>1. IsFiniteSet(Holders') /\ Cardinality(Holders') = Cardinality(Holders) - 1
  BY HoldersFinite, FS_RemoveElement
<1>2. Cardinality(Holders) \in Nat /\ Cardinality(Holders') \in Nat
  BY <1>1, HoldersFinite, FS_CardinalityType
<1> QED
  BY <1>1, <1>2

\* A kept slot is one that leaked.
LEMMA KeptSlotLeaks ==
  ASSUME SlotInv, NEW c \in Callers, SlotKept(c), leaks' = leaks + 1
  PROVE  Slots'
<1>1. c \in Holders /\ Holders' = Holders \ {c}
  BY DEF SlotInv, ThrottleInv, TypeOK, SlotKept, Holders
<1>2. Cardinality(Holders') = Cardinality(Holders) - 1 /\ Cardinality(Holders) \in Nat
  BY <1>1, OwnerGone
<1> QED
  BY <1>2 DEF SlotInv, Slots, SlotsAccountedFor, SlotKept

\* A returned slot is free, the queue's head has it, or it went to a future that
\* was done and has leaked.
LEMMA ReturnSlotCounts ==
  ASSUME SlotInv, NEW c \in Callers, ReturnSlot(c)
  PROVE  Slots'
<1>0. /\ task \in [Callers -> Places] /\ waiters \in Seq(Callers) /\ current \in Nat
      /\ leaks \in Nat /\ current = Cardinality(Holders) + leaks
  BY LimitAssumption DEF SlotInv, ThrottleInv, TypeOK, Slots, SlotsAccountedFor
<1>1. CASE FreeSlot(c)
  <2>1. c \in Holders /\ Holders' = Holders \ {c}
    BY <1>0, <1>1 DEF FreeSlot, Holders
  <2>2. /\ Cardinality(Holders') = Cardinality(Holders) - 1
        /\ Cardinality(Holders) \in Nat /\ Cardinality(Holders) > 0
    BY <2>1, OwnerGone
  <2>3. current' = current - 1 /\ leaks' = leaks
    BY <1>0, <1>1, <2>2 DEF FreeSlot, ReturnSlot
  <2> QED
    BY <1>0, <2>2, <2>3 DEF Slots, SlotsAccountedFor
<1>2. CASE HandOver(c)
  <2> DEFINE h == Head(waiters)
  <2>1. /\ waiters # <<>> /\ task[c] = "holding" /\ current' = current
        /\ task' = [task EXCEPT ![c] = "out", ![h] = IF @ = "queued" THEN "granted" ELSE @]
    BY <1>2 DEF HandOver
  <2>2. h \in Callers /\ task[h] \in {"queued", "expired"} /\ h # c
    <3>1. 1 \in DOMAIN waiters /\ h = waiters[1]
      BY <1>0, <2>1
    <3> QED
      BY <1>0, <2>1, <3>1 DEF SlotInv, QueueInv, QueueExact
  <2> HIDE DEF h
  <2>3. c \in Holders /\ h \notin Holders
    BY <2>1, <2>2 DEF Holders
  <2>4. CASE task[h] = "queued"
    <3>1. Holders' = (Holders \ {c}) \cup {h}
      BY <1>0, <2>1, <2>2, <2>4 DEF Holders
    <3>2. /\ IsFiniteSet(Holders \ {c}) /\ Cardinality(Holders) \in Nat
          /\ Cardinality(Holders \ {c}) = Cardinality(Holders) - 1
      BY <2>1, OwnerLeaves
    <3>3. Cardinality(Holders') = Cardinality(Holders \ {c}) + 1
      BY <2>3, <3>1, <3>2, FS_AddElement
    <3>4. leaks' = leaks
      BY <2>1, <2>4 DEF ReturnSlot, h
    <3> QED
      BY <1>0, <2>1, <3>2, <3>3, <3>4 DEF Slots, SlotsAccountedFor
  <2>5. CASE task[h] = "expired"
    <3>1. Holders' = Holders \ {c}
      BY <1>0, <2>1, <2>2, <2>5 DEF Holders
    <3>2. Cardinality(Holders') = Cardinality(Holders) - 1 /\ Cardinality(Holders) \in Nat
      BY <2>3, <3>1, OwnerGone
    <3>3. leaks' = leaks + 1
      BY <2>1, <2>5 DEF ReturnSlot, h
    <3> QED
      BY <1>0, <2>1, <3>2, <3>3 DEF Slots, SlotsAccountedFor
  <2> QED
    BY <2>2, <2>4, <2>5
<1> QED
  BY <1>1, <1>2 DEF ReturnSlot, Release

\* acquire() of the throttle, whether it gets a slot, waits or gives up.
LEMMA AcquireCounts ==
  ASSUME SlotInv, NEW c \in Callers, GotSlot(c) \/ Queueing(c) \/ GiveUp(c)
  PROVE  Slots'
<1>0. /\ task \in [Callers -> Places] /\ current \in Nat
      /\ leaks \in Nat /\ current = Cardinality(Holders) + leaks
  BY LimitAssumption DEF SlotInv, ThrottleInv, TypeOK, Slots, SlotsAccountedFor
<1>1. CASE TakeSlot(c) /\ leaks' = leaks
  <2>1. c \notin Holders /\ Holders' = Holders \cup {c}
    BY <1>0, <1>1 DEF TakeSlot, Holders
  <2>2. Cardinality(Holders') = Cardinality(Holders) + 1 /\ Cardinality(Holders) \in Nat
    BY <2>1, HoldersFinite, FS_AddElement, FS_CardinalityType
  <2> QED
    BY <1>0, <1>1, <2>2 DEF TakeSlot, Slots, SlotsAccountedFor
<1>2. CASE (Resume(c) \/ Enqueue(c) \/ Expire(c) \/ Revoke(c)) /\ leaks' = leaks
  <2>1. Holders' = Holders /\ current' = current
    BY <1>0, <1>2 DEF Resume, Enqueue, Expire, Revoke, Holders
  <2> QED
    BY <1>0, <1>2, <2>1 DEF Slots, SlotsAccountedFor
<1>3. CASE Withdraw(c) /\ task[c] = "revoked" /\ leaks' = leaks + 1
  <2>1. c \in Holders /\ Holders' = Holders \ {c} /\ current' = current
    BY <1>0, <1>3 DEF Withdraw, Holders
  <2>2. Cardinality(Holders') = Cardinality(Holders) - 1 /\ Cardinality(Holders) \in Nat
    BY <2>1, OwnerGone
  <2> QED
    BY <1>0, <1>3, <2>1, <2>2 DEF Slots, SlotsAccountedFor
<1>4. CASE Withdraw(c) /\ task[c] # "revoked" /\ leaks' = leaks
  <2>1. Holders' = Holders /\ current' = current
    BY <1>0, <1>4 DEF Withdraw, Holders
  <2> QED
    BY <1>0, <1>4, <2>1 DEF Slots, SlotsAccountedFor
<1> QED
  BY <1>1, <1>2, <1>3, <1>4 DEF GotSlot, Queueing, GiveUp

LEMMA SlotsKept ==
  ASSUME SlotInv, [BackendNext]_backendVars
  PROVE  Slots'
<1>1. ASSUME NEW c \in Callers, CallerEnds(c) PROVE Slots'
  <2>1. task[c] = "holding"
    BY <1>1 DEF SlotInv, WorkHasSlot, CallerEnds, AcquireFails, AcquireCancelled,
                ReleaseWorker, EvictWorker, EvictCancelled
  <2>2. ReturnSlot(c) \/ (SlotKept(c) /\ leaks' = leaks + 1)
    BY <1>1, <2>1 DEF CallerEnds, AcquireFails, AcquireCancelled, ReleaseWorker, EvictWorker,
                      EvictCancelled,
                      KeepSlot, SlotKept
  <2> QED
    BY <2>2, ReturnSlotCounts, KeptSlotLeaks
<1>2. ASSUME UNCHANGED vars, leaks' = leaks PROVE Slots'
  BY <1>2 DEF vars, SlotInv, Slots, SlotsAccountedFor, Holders
<1>3. ASSUME NEW c \in Callers, Ready(c) \/ \E w \in Workers : Ensured(c, w)
      PROVE  UNCHANGED vars /\ leaks' = leaks
  BY <1>3 DEF Ready, Ensured
<1>4. ASSUME \/ StartupList \/ RoundStart \/ ListWorkers \/ ListFails \/ RoundDone \/ Tick
             \/ \E w \in Workers : EvictOk(w) \/ EvictFails(w) \/ Stop(w)
             \/ UNCHANGED backendVars
      PROVE  UNCHANGED vars /\ leaks' = leaks
  BY <1>4 DEF StartupList, RoundStart, ListWorkers, ListFails, RoundDone, Tick, EvictOk,
              EvictFails, Stop, backendVars
<1> QED
  BY <1>1, <1>2, <1>3, <1>4, AcquireCounts DEF BackendNext

\* What one caller does takes no slot from another one that works with it.
LEMMA WorkKeepsSlot ==
  ASSUME SlotInv, [BackendNext]_backendVars
  PROVE  WorkHasSlot'
<1>0. /\ task \in [Callers -> Places] /\ waiters \in Seq(Callers)
      /\ work \in [Callers -> {"none", "ensuring", "starting", "invoking"}]
      /\ \A c \in Callers : work[c] # "none" => task[c] = "holding"
      /\ job \in {"boot", "boot_evict"} => \A c \in Callers : work[c] = "none"
  BY DEF SlotInv, ThrottleInv, TypeOK, WorkHasSlot
<1>1. ASSUME NEW c \in Callers, CallerEnds(c) PROVE WorkHasSlot'
  <2>1. /\ work' = [work EXCEPT ![c] = "none"] /\ job' = job
    BY <1>1 DEF CallerEnds, AcquireFails, AcquireCancelled, ReleaseWorker, EvictWorker,
                EvictCancelled, Leave,
                janitorVars
  <2>2. KeepSlot(c) \/ HandOver(c) \/ FreeSlot(c)
    BY <1>1 DEF CallerEnds, AcquireFails, AcquireCancelled, ReleaseWorker, EvictWorker,
                EvictCancelled,
                ReturnSlot, Release
  <2>3. ASSUME HandOver(c), NEW d \in Callers \ {c}, task[d] = "holding"
        PROVE  task'[d] = "holding"
    BY <1>0, <2>3 DEF HandOver
  <2>4. ASSUME NEW d \in Callers \ {c}, task[d] = "holding" PROVE task'[d] = "holding"
    BY <1>0, <2>2, <2>3, <2>4 DEF KeepSlot, FreeSlot
  <2> QED
    BY <1>0, <2>1, <2>4 DEF WorkHasSlot
<1>2. ASSUME NEW c \in Callers, GotSlot(c) PROVE WorkHasSlot'
  BY <1>0, <1>2 DEF GotSlot, TakeSlot, Resume, janitorVars, WorkHasSlot
<1>3. ASSUME NEW c \in Callers, Queueing(c) \/ GiveUp(c) PROVE WorkHasSlot'
  BY <1>0, <1>3 DEF Queueing, GiveUp, Enqueue, Expire, Revoke, Withdraw, janitorVars, WorkHasSlot
<1>4. ASSUME NEW c \in Callers, Ready(c) \/ \E w \in Workers : Ensured(c, w)
      PROVE  WorkHasSlot'
  BY <1>0, <1>4 DEF Ready, Ensured, janitorVars, vars, WorkHasSlot
<1>5. ASSUME \/ StartupList \/ RoundStart \/ ListWorkers \/ ListFails \/ RoundDone \/ Tick
             \/ \E w \in Workers : EvictOk(w) \/ EvictFails(w) \/ Stop(w)
             \/ UNCHANGED backendVars
      PROVE  WorkHasSlot'
  <2>1. UNCHANGED <<task, work>> /\ (job' \in {"boot", "boot_evict"} => job \in {"boot", "boot_evict"})
    BY <1>5 DEF StartupList, RoundStart, ListWorkers, ListFails, RoundDone, Tick, EvictOk,
                EvictFails, Stop, backendVars, vars, janitorVars
  <2> QED
    BY <1>0, <2>1 DEF WorkHasSlot
<1> QED
  BY <1>1, <1>2, <1>3, <1>4, <1>5 DEF BackendNext

LEMMA SlotInitial == BackendInit => SlotInv
<1> SUFFICES ASSUME BackendInit PROVE SlotInv
  OBVIOUS
<1>1. ThrottleInv /\ QueueInv
  BY ThrottleInit, QueueInit DEF BackendInit
<1>2. WorkHasSlot
  BY DEF BackendInit, WorkHasSlot
<1>3. Slots
  <2>1. Holders = {}
    BY DEF BackendInit, Init, Holders
  <2> QED
    BY <2>1, FS_EmptySet DEF BackendInit, Init, Slots, SlotsAccountedFor
<1> QED
  BY <1>1, <1>2, <1>3 DEF SlotInv

LEMMA SlotStep == SlotInv /\ [BackendNext]_backendVars => SlotInv'
  BY UseKeepsThrottle, SlotsKept, WorkKeepsSlot DEF SlotInv

----------------------------------------------------------------------------
(* Containers and the janitor *)

\* A container that the janitor leaves alone: it exists, it is not older than an
\* invocation lasts, and no round, begun at whatever time, has chosen it.
Safe(w) == w \in Workers /\ status[w] # "absent" /\ age[w] <= UseBound /\ w \notin old \cup targets

HeldInv == /\ held \in [Callers -> Workers \cup {NoWorker}]
           /\ DOMAIN status = Workers /\ age \in [Workers -> Nat]
           /\ \A c \in Callers : held[c] # NoWorker => Safe(held[c]) /\ work[c] # "none"
           /\ \A c, d \in Callers : held[c] = held[d] /\ held[c] # NoWorker => c = d

\* A step of the janitor, of time or of a function's process.
LEMMA SafeFrame ==
  ASSUME HeldInv, UNCHANGED <<held, work>>, DOMAIN status' = Workers, age' \in [Workers -> Nat],
         \A c \in Callers : held[c] # NoWorker => Safe(held[c])'
  PROVE  HeldInv'
  BY DEF HeldInv

\* A container that is created is nobody's yet and no round knows of it.
LEMMA CreateKeepsSafe ==
  ASSUME HeldInv, NEW w \in Workers, Create(w), UNCHANGED <<old, targets>>
  PROVE  /\ DOMAIN status' = Workers /\ age' \in [Workers -> Nat] /\ Safe(w)'
         /\ \A v \in Workers : Safe(v) => v # w /\ Safe(v)'
<1>1. /\ w \notin Exists \cup old \cup targets
      /\ status' = [status EXCEPT ![w] = "RUNNING"] /\ age' = [age EXCEPT ![w] = 0]
  BY DEF Create
<1> QED
  BY <1>1, IdleAssumption DEF HeldInv, Safe, Exists

\* A caller that leaves takes its container with it, or leaves it behind; the
\* containers of the others stay safe.
LEMMA LeavePreserves ==
  ASSUME HeldInv, NEW c \in Callers, Leave(c), DOMAIN status' = Workers, age' \in [Workers -> Nat],
         \A v \in Workers : Safe(v) /\ v # held[c] => Safe(v)'
  PROVE  HeldInv'
<1>1. held' = [held EXCEPT ![c] = NoWorker] /\ work' = [work EXCEPT ![c] = "none"]
  BY DEF Leave
<1>2. ASSUME NEW d \in Callers, held'[d] # NoWorker
      PROVE  d # c /\ held'[d] = held[d] /\ held[d] # held[c]
  BY <1>1, <1>2 DEF HeldInv
<1>3. ASSUME NEW d \in Callers, NEW v, v = held'[d], v # NoWorker PROVE Safe(v)'
  <2>1. v = held[d] /\ Safe(v) /\ v # held[c]
    BY <1>2, <1>3 DEF HeldInv
  <2>2. v \in Workers
    BY <2>1 DEF Safe
  <2> QED
    BY <2>1, <2>2
<1>4. ASSUME NEW d \in Callers, held'[d] # NoWorker PROVE Safe(held[d])'
  BY <1>3, <1>4 DEF Safe
<1> QED
  BY <1>1, <1>2, <1>4 DEF HeldInv

LEMMA CallerEndsKeepsHeld ==
  ASSUME HeldInv, NEW c \in Callers, CallerEnds(c)
  PROVE  HeldInv'
<1>1. Leave(c) /\ UNCHANGED <<old, targets>>
  BY DEF CallerEnds, AcquireFails, AcquireCancelled, ReleaseWorker, EvictWorker,
         EvictCancelled, janitorVars
<1>2. CASE UNCHANGED containerVars
  <2>1. \A v \in Workers : Safe(v) => Safe(v)'
    BY <1>1, <1>2 DEF containerVars, Safe
  <2> QED
    BY <1>1, <1>2, <2>1, LeavePreserves DEF HeldInv, containerVars
<1>3. CASE \E w \in Workers : Create(w)
  BY <1>1, <1>3, CreateKeepsSafe, LeavePreserves
<1>4. CASE age' = age /\ status' = [status EXCEPT ![held[c]] = "absent"]
  <2>1. \A v \in Workers : Safe(v) /\ v # held[c] => Safe(v)'
    BY <1>1, <1>4 DEF Safe, HeldInv
  <2> QED
    BY <1>1, <1>4, <2>1, LeavePreserves DEF HeldInv
<1> QED
  BY <1>2, <1>3, <1>4 DEF CallerEnds, AcquireFails, AcquireCancelled, ReleaseWorker,
                          EvictWorker, EvictCancelled, MaybeCreated, containerVars

\* The container that the agent has just created, and the port that answers.
LEMMA EnsuredKeepsHeld ==
  ASSUME HeldInv, NEW c \in Callers, Ready(c) \/ \E w \in Workers : Ensured(c, w)
  PROVE  HeldInv'
<1>1. CASE Ready(c)
  <2>1. /\ UNCHANGED <<held, status, age, old, targets>>
        /\ work' = [work EXCEPT ![c] = "invoking"]
    BY <1>1 DEF Ready, containerVars, janitorVars
  <2>2. \A d \in Callers : work[d] # "none" => work'[d] # "none"
    BY <1>1, <2>1 DEF Ready
  <2> QED
    BY <2>1, <2>2 DEF HeldInv, Safe
<1>2. ASSUME NEW w \in Workers, Ensured(c, w) PROVE HeldInv'
  <2>1. /\ held' = [held EXCEPT ![c] = w] /\ work' = [work EXCEPT ![c] = "starting"]
        /\ Create(w) /\ UNCHANGED <<old, targets>>
    BY <1>2 DEF Ensured, janitorVars
  <2>2. /\ DOMAIN status' = Workers /\ age' \in [Workers -> Nat] /\ Safe(w)'
        /\ \A v \in Workers : Safe(v) => v # w /\ Safe(v)'
    BY <2>1, CreateKeepsSafe
  <2>3. ASSUME NEW d \in Callers, d # c, held[d] # NoWorker PROVE held[d] \in Workers /\ held[d] # w
    BY <2>2, <2>3 DEF HeldInv, Safe
  <2>4. ASSUME NEW d \in Callers, NEW v, v = held'[d], v # NoWorker PROVE Safe(v)'
    <3>1. CASE d = c
      BY <2>1, <2>2, <2>4, <3>1 DEF HeldInv
    <3>2. CASE d # c
      <4>1. v = held[d] /\ Safe(v)
        BY <2>1, <2>4, <3>2 DEF HeldInv
      <4>2. v \in Workers
        BY <4>1 DEF Safe
      <4> QED
        BY <2>2, <4>1, <4>2
    <3> QED
      BY <3>1, <3>2
  <2>5. ASSUME NEW d \in Callers, held'[d] # NoWorker PROVE Safe(held[d])' /\ work'[d] # "none"
    <3>1. Safe(held[d])'
      BY <2>4, <2>5 DEF Safe
    <3>2. work'[d] # "none"
      BY <1>2, <2>1, <2>5 DEF HeldInv, Ensured
    <3> QED
      BY <3>1, <3>2
  <2>6. \A d, e \in Callers : held'[d] = held'[e] /\ held'[d] # NoWorker => d = e
    BY <2>1, <2>3 DEF HeldInv
  <2>7. held' \in [Callers -> Workers \cup {NoWorker}]
    BY <2>1 DEF HeldInv
  <2> QED
    BY <2>2, <2>5, <2>6, <2>7 DEF HeldInv
<1> QED
  BY <1>1, <1>2

\* The janitor: at boot nobody holds anything; later a round chooses only what was
\* older than IdleTimeout, and nobody holds a container for that long.
LEMMA JanitorKeepsHeld ==
  ASSUME SlotInv, HeldInv,
         \/ StartupList \/ RoundStart \/ ListWorkers \/ ListFails \/ RoundDone
         \/ \E w \in Workers : EvictOk(w) \/ EvictFails(w)
  PROVE  HeldInv'
<1>1. UNCHANGED <<held, work>> /\ age' = age
  BY DEF StartupList, RoundStart, ListWorkers, ListFails, RoundDone, EvictOk, EvictFails,
         containerVars
<1>2. DOMAIN status' = Workers
  BY DEF StartupList, RoundStart, ListWorkers, ListFails, RoundDone, EvictOk, EvictFails,
         containerVars, HeldInv
<1>3. ASSUME NEW c \in Callers, held[c] # NoWorker, NEW v, v = held[c]
      PROVE  v \in Workers /\ status'[v] # "absent" /\ age'[v] <= UseBound /\ v \notin old' \cup targets'
  <2>1. Safe(v) /\ v \in Workers /\ age[v] \in Nat
    BY <1>3 DEF HeldInv, Safe
  <2>2. CASE StartupList
    BY <1>3, <2>2 DEF StartupList, SlotInv, WorkHasSlot, HeldInv
  <2>3. CASE RoundStart
    BY <2>1, <2>3, IdleAssumption DEF RoundStart, containerVars, Safe
  <2>4. CASE ListWorkers \/ ListFails \/ RoundDone
    BY <2>1, <2>4 DEF ListWorkers, ListFails, RoundDone, containerVars, Safe
  <2>5. CASE \E w \in Workers : EvictOk(w) \/ EvictFails(w)
    BY <2>1, <2>5 DEF EvictOk, EvictFails, containerVars, Safe, HeldInv
  <2> QED
    BY <2>2, <2>3, <2>4, <2>5
<1>4. \A c \in Callers : held[c] # NoWorker => Safe(held[c])'
  BY <1>1, <1>3 DEF Safe
<1> QED
  BY <1>1, <1>2, <1>4, SafeFrame DEF HeldInv

\* Time passes only while every held container is younger than an invocation lasts.
LEMMA TimeKeepsHeld ==
  ASSUME HeldInv, Tick \/ (\E w \in Workers : Stop(w)) \/ UNCHANGED backendVars
  PROVE  HeldInv'
<1>1. UNCHANGED <<held, work, old, targets>>
  BY DEF Tick, Stop, backendVars, janitorVars
<1>2. DOMAIN status' = Workers /\ \A w \in Workers : status[w] # "absent" => status'[w] # "absent"
  BY DEF Tick, Stop, backendVars, containerVars, HeldInv
<1>3. age' \in [Workers -> Nat]
  <2>1. CASE Tick
    BY <2>1, IdleAssumption DEF Tick, HeldInv
  <2>2. CASE age' = age
    BY <2>2 DEF HeldInv
  <2> QED
    BY <2>1, <2>2 DEF Stop, backendVars, containerVars
<1>4. ASSUME NEW c \in Callers, held[c] # NoWorker PROVE age'[held[c]] <= UseBound
  <2>1. held[c] \in Held /\ held[c] \in Workers /\ age[held[c]] <= UseBound
        /\ age[held[c]] \in Nat
    BY <1>4 DEF Held, HeldInv, Safe
  <2>2. CASE Tick
    BY <2>1, <2>2, IdleAssumption DEF Tick
  <2>3. CASE age' = age
    BY <2>1, <2>3
  <2> QED
    BY <2>2, <2>3 DEF Stop, backendVars, containerVars
<1>5. \A c \in Callers : held[c] # NoWorker => Safe(held[c])'
  BY <1>1, <1>2, <1>4 DEF HeldInv, Safe
<1> QED
  BY <1>1, <1>2, <1>3, <1>5, SafeFrame

\* Waiting for a slot, with a container in nobody's hands.
LEMMA QueueingKeepsHeld ==
  ASSUME SlotInv, HeldInv, NEW c \in Callers, GotSlot(c) \/ Queueing(c) \/ GiveUp(c)
  PROVE  HeldInv'
<1>1. UNCHANGED <<held, status, age, old, targets>>
  BY DEF GotSlot, Queueing, GiveUp, containerVars, janitorVars
<1>2. work' = work \/ work' = [work EXCEPT ![c] = "ensuring"]
  BY DEF GotSlot, Queueing, GiveUp
<1>3. \A d \in Callers : work[d] # "none" => work'[d] # "none"
  BY <1>2 DEF WorkHasSlot, SlotInv
<1> QED
  BY <1>1, <1>3 DEF HeldInv, Safe

LEMMA HeldInitial == BackendInit => HeldInv
  BY DEF BackendInit, HeldInv

LEMMA HeldStep == SlotInv /\ HeldInv /\ [BackendNext]_backendVars => HeldInv'
  BY CallerEndsKeepsHeld, EnsuredKeepsHeld, JanitorKeepsHeld, TimeKeepsHeld,
     QueueingKeepsHeld DEF BackendNext

----------------------------------------------------------------------------
(* Theorems about the backend *)

\* A slot that current counts has an owner or has leaked in one of the known ways.
THEOREM SlotsAreAccountedFor == BackendSpec => []SlotsAccountedFor
<1>1. SlotInv => SlotsAccountedFor
  BY DEF SlotInv, Slots
<1> QED
  BY SlotInitial, SlotStep, <1>1, PTL DEF BackendSpec

\* The janitor's stale decisions never hit a container in use.
THEOREM JanitorSparesUsed == BackendSpec => []HeldContainersExist
<1>1. HeldInv => HeldContainersExist
  BY DEF HeldInv, Safe, HeldContainersExist, Held, Exists
<1> QED
  BY SlotInitial, SlotStep, HeldInitial, HeldStep, <1>1, PTL DEF BackendSpec

\* Lost slots included, the backend never works for more callers than limit.
THEOREM BackendKeepsLimit == BackendSpec => []LimitHolds
<1>1. SlotInv => LimitHolds
  BY DEF SlotInv, ThrottleInv
<1> QED
  BY SlotInitial, SlotStep, <1>1, PTL DEF BackendSpec

\* The throttle's queue stays exact under the failing paths of the backend.
THEOREM BackendKeepsQueue == BackendSpec => []QueueExact
<1>1. SlotInv => QueueExact
  BY DEF SlotInv, QueueInv
<1> QED
  BY SlotInitial, SlotStep, <1>1, PTL DEF BackendSpec

\* And slots are given out in the order of arrival.
THEOREM BackendIsFIFO == BackendSpec => ServedInOrder
<1>1. ASSUME SlotInv, NEW c \in Callers, SlotKept(c) PROVE ServedInOrderStep
  BY <1>1 DEF SlotInv, ThrottleInv, TypeOK, SlotKept, ServedInOrderStep
<1>2. SlotInv /\ [BackendNext]_backendVars => [ServedInOrderStep]_vars
  BY <1>1, ThrottleUse, OrderStep DEF SlotInv, ThrottleInv
<1>3. BackendSpec => [][ServedInOrderStep]_vars
  BY SlotInitial, SlotStep, <1>2, PTL DEF BackendSpec
<1> QED
  BY <1>3 DEF ServedInOrder, ServedInOrderStep
=============================================================================
