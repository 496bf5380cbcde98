--------------------------- MODULE Jea9SchedProofs ---------------------------
(***************************************************************************)
(* The scheduler's safety, for every number of threads, set of futex       *)
(* words, clock policy, scheduler mode, engine and set of timeouts.  The   *)
(* inductive invariant adds to KernelInv that the context being executed   *)
(* is runnable: without it a thread could enter a second wait while its    *)
(* first is still queued and counted.  First the operators of Jea9Kernel,  *)
(* each of which maintains KernelInv; then the scheduler's actions.        *)
(***************************************************************************)
EXTENDS Jea9Sched, FiniteSetTheorems, TLAPS

-----------------------------------------------------------------------------
(* The operators of Jea9Kernel. *)

Distinct(q) == \A i, k \in DOMAIN q : q[i] = q[k] => i = k

\* The shape of a sequence, for leaves that reason with sets only.
LEMMA SequenceShape ==
  ASSUME NEW S, NEW q \in Seq(S)
  PROVE  Len(q) \in Nat /\ q \in [1..Len(q) -> S] /\ DOMAIN q = 1..Len(q)
OBVIOUS

\* A function on an initial segment is a sequence.
LEMMA FunctionIsSequence ==
  ASSUME NEW S, NEW m \in Nat, NEW r \in [1..m -> S]
  PROVE  r \in Seq(S) /\ DOMAIN r = 1..m
OBVIOUS

\* Removing a set of waiters from a queue (removeFutexWaiter, repeated) leaves
\* exactly the others, each as often as before.
LEMMA WithoutProperties ==
  ASSUME NEW S, NEW q \in Seq(S), NEW E, Distinct(q)
  PROVE  /\ Without(q, E) \in Seq(S)
         /\ \A t : Occurs(t, Without(q, E)) <=> (Occurs(t, q) /\ t \notin E)
         /\ Distinct(Without(q, E))
<1> DEFINE kept == {i \in DOMAIN q : q[i] \notin E}
           upto(i) == {h \in kept : h <= i}
           m == Cardinality(kept)
           rank == [i \in kept |-> Cardinality(upto(i))]
           at(k) == CHOOSE i \in kept : Cardinality(upto(i)) = k
           r == [k \in 1..m |-> q[at(k)]]
<1>1. /\ DOMAIN q = 1..Len(q)
      /\ Len(q) \in Nat
      /\ \A i \in 1..Len(q) : q[i] \in S
  BY SequenceShape
<1>2. kept \subseteq 1..Len(q) /\ IsFiniteSet(kept) /\ m \in Nat
  <2>1. kept \in SUBSET (1..Len(q))
    BY <1>1
  <2>2. IsFiniteSet(1..Len(q))
    BY <1>1, FS_Interval
  <2> HIDE DEF kept
  <2>3. IsFiniteSet(kept)
    BY Zenon, <2>1, <2>2, FS_Subset
  <2> QED
    BY <2>1, <2>3, FS_CardinalityType
<1>3. \A i \in kept : /\ IsFiniteSet(upto(i))
                      /\ Cardinality(upto(i)) \in 1..m
  <2> TAKE i \in kept
  <2>1. upto(i) \in SUBSET kept
    OBVIOUS
  <2>2. IsFiniteSet(upto(i)) /\ Cardinality(upto(i)) <= m
    BY <2>1, <1>2, FS_Subset
  <2>3. Cardinality(upto(i)) \in Nat
    BY <2>2, FS_CardinalityType
  <2>4. i \in upto(i)
    BY <1>2
  <2>5. Cardinality(upto(i)) # 0
    BY <2>2, <2>4, FS_EmptySet
  <2> QED
    BY <2>2, <2>3, <2>5, <1>2
<1>4. \A i, k \in kept : i < k => Cardinality(upto(i)) # Cardinality(upto(k))
  <2> SUFFICES ASSUME NEW i \in kept, NEW k \in kept, i < k
               PROVE  Cardinality(upto(i)) # Cardinality(upto(k))
    OBVIOUS
  <2>1. upto(i) \in SUBSET upto(k)
    BY <1>2
  <2>2. k \in upto(k) /\ k \notin upto(i)
    BY <1>2
  <2> QED
    BY Zenon, <2>1, <2>2, <1>3, FS_Subset
<1>5. rank \in Injection(kept, 1..m)
  <2>1. rank \in [kept -> 1..m]
    BY Zenon, <1>3
  <2>2. \A i, k \in kept : rank[i] = rank[k] => i = k
    BY <1>2, <1>4
  <2> QED
    BY Zenon, <2>1, <2>2 DEF Injection, IsInjective
<1>6. rank \in Surjection(kept, 1..m)
  <2>1. IsFiniteSet(1..m) /\ Cardinality(1..m) = m
    BY <1>2, FS_Interval
  <2> HIDE DEF rank
  <2> QED
    BY <2>1, <1>5, FS_Injection
<1>7. \A k \in 1..m : at(k) \in kept /\ Cardinality(upto(at(k))) = k
  <2> TAKE k \in 1..m
  <2>1. \E i \in kept : rank[i] = k
    BY Zenon, <1>6 DEF Surjection
  <2>2. \E i \in kept : Cardinality(upto(i)) = k
    BY Zenon, <2>1
  <2> QED
    BY Zenon, <2>2
<1>8. \A i \in kept : at(Cardinality(upto(i))) = i
  BY <1>2, <1>3, <1>4, <1>7
<1>9. Without(q, E) = r
  BY DEF Without
<1>10. r \in Seq(S) /\ DOMAIN r = 1..m
  <2>1. r \in [1..m -> S]
    BY Zenon, <1>7, <1>1, <1>2
  <2> HIDE DEF r, m
  <2> QED
    BY <2>1, <1>2, FunctionIsSequence
<1>11. \A t : Occurs(t, r) <=> (Occurs(t, q) /\ t \notin E)
  <2> TAKE t
  <2>1. ASSUME Occurs(t, r) PROVE Occurs(t, q) /\ t \notin E
    BY Zenon, <2>1, <1>7 DEF Occurs
  <2>2. ASSUME Occurs(t, q), t \notin E PROVE Occurs(t, r)
    <3>1. PICK i \in DOMAIN q : q[i] = t
      BY <2>2 DEF Occurs
    <3>2. i \in kept
      BY <3>1, <2>2
    <3>3. Cardinality(upto(i)) \in 1..m /\ r[Cardinality(upto(i))] = t
      BY Zenon, <3>1, <3>2, <1>3, <1>8
    <3> QED
      BY Zenon, <3>3, <1>10 DEF Occurs
  <2> QED
    BY <2>1, <2>2
<1>12. Distinct(r)
  <2> SUFFICES ASSUME NEW k \in 1..m, NEW l \in 1..m, r[k] = r[l]
               PROVE  k = l
    BY Zenon, <1>10 DEF Distinct
  <2>1. q[at(k)] = q[at(l)] /\ at(k) \in DOMAIN q /\ at(l) \in DOMAIN q
    BY Zenon, <1>7
  <2>2. at(k) = at(l)
    BY Zenon, <2>1 DEF Distinct
  <2> QED
    BY Zenon, <2>2, <1>7
<1> QED
  BY Zenon, <1>9, <1>10, <1>11, <1>12

-----------------------------------------------------------------------------
\* A set of deadlines or tids has a least member.
LEMMA LeastMember ==
  ASSUME NEW S \in SUBSET Nat, S # {}
  PROVE  \E x \in S : \A y \in S : x <= y
<1>1. OpToRel(<, Nat) = {ss \in Nat \X Nat : ss[1] < ss[2]}
  BY Zenon DEF OpToRel
<1>2. PICK x \in S : \A y \in S : <<y, x>> \notin OpToRel(<, Nat)
  BY NatLessThanWellFounded, WFMin, Zenon
<1>3. ASSUME NEW y \in S PROVE x <= y
  <2>1. <<y, x>> \notin {ss \in Nat \X Nat : ss[1] < ss[2]}
    BY <1>1, <1>2, Zenon
  <2> QED
    BY <2>1
<1> QED
  BY <1>3

\* The minimum of a nonempty set of naturals is one of them.
LEMMA MinOfMember ==
  ASSUME NEW S \in SUBSET Nat, S # {}
  PROVE  MinOf(S) \in S
BY Zenon, LeastMember DEF MinOf

\* firstRunnableByPolicy returns a context it may choose.
LEMMA FirstEligible ==
  ASSUME NEW j, Eligible(j) # {}
  PROVE  FirstRunnableByPolicy(j) \in Eligible(j)
<1>1. Eligible(j) \in SUBSET Nat
  BY DEF Eligible, Runnable, Tid
<1> QED
  BY <1>1, MinOfMember DEF FirstRunnableByPolicy

\* nextRunnableByPolicyAfterCurrent returns a context other than the current.
LEMMA NextEligible ==
  ASSUME NEW j, j \in KernelType, OthersEligible(j) # {}
  PROVE  NextRunnableByPolicyAfterCurrent(j) \in OthersEligible(j)
<1> DEFINE distance(t) == IF t > j.cur THEN t - j.cur ELSE t + j.n - j.cur
           D == {distance(t) + NThreads : t \in OthersEligible(j)}
<1>1. j.cur \in 1..NThreads /\ j.n \in 1..NThreads /\ NThreads \in Nat
  BY NThreadsAssumption DEF KernelType, Tid
<1>2. OthersEligible(j) \in SUBSET (1..NThreads)
  BY DEF OthersEligible, Eligible, Runnable, Tid
<1>3. D \in SUBSET Nat /\ D # {}
  BY <1>1, <1>2
<1>4. PICK x \in D : \A y \in D : x <= y
  BY Zenon, <1>3, LeastMember
<1>5. PICK t \in OthersEligible(j) : x = distance(t) + NThreads
  OBVIOUS
<1>6. \E v \in OthersEligible(j) : \A u \in OthersEligible(j) :
          distance(v) <= distance(u)
  <2> SUFFICES ASSUME NEW u \in OthersEligible(j)
               PROVE  distance(t) <= distance(u)
    OBVIOUS
  <2>1. x <= distance(u) + NThreads
    BY <1>4
  <2> QED
    BY <2>1, <1>1, <1>2, <1>5
<1> QED
  BY <1>6 DEF NextRunnableByPolicyAfterCurrent

-----------------------------------------------------------------------------
\* A step that leaves contexts, queues and counters alone keeps the invariant.
LEMMA Frame ==
  ASSUME NEW j, KernelInv(j), NEW l, l \in KernelType,
         l.n = j.n, l.state = j.state, l.kind = j.kind, l.addr = j.addr,
         l.dl = j.dl, l.waiters = j.waiters, l.timed = j.timed,
         l.chaosStart <= l.chaosUntil
  PROVE  KernelInv(l)
<1>1. \A k \in TimedKinds : TimedOfKind(l, k) = TimedOfKind(j, k)
  BY DEF TimedOfKind, TimedWaiting, Waiting
<1> QED
  BY <1>1 DEF KernelInv, QueuesExact, CountersExact, WaitFieldsExact

\* What the wake-ups have in common: l is j with some waiting contexts made
\* runnable, and the same context current.
Wakes(j, l) ==
    /\ KernelInv(l)
    /\ l.cur = j.cur
    /\ \A t \in Tid : j.state[t] = "runnable" => l.state[t] = "runnable"

\* Two operators that only wake contexts may be composed.
LEMMA WakesTransitive ==
  ASSUME NEW j, NEW l, NEW m, Wakes(j, l), Wakes(l, m)
  PROVE  Wakes(j, m)
BY DEF Wakes


\* The timed waiters of a kind are finitely many, so they can be counted.
LEMMA TimedFinite ==
  ASSUME NEW j, NEW k
  PROVE  IsFiniteSet(TimedOfKind(j, k))
<1>1. TimedOfKind(j, k) \in SUBSET (1..NThreads)
  BY DEF TimedOfKind, TimedWaiting, Waiting, Tid
<1>2. IsFiniteSet(1..NThreads)
  BY NThreadsAssumption, FS_Interval
<1> QED
  BY Zenon, <1>1, <1>2, FS_Subset

\* markRunnable for waiting contexts that have been taken off their queues.
LEMMA WakeUp ==
  ASSUME NEW j, KernelInv(j), NEW W \in SUBSET Waiting(j),
         NEW Q \in [Addrs -> Seq(Tid)],
         \A a \in Addrs :
           /\ Distinct(Q[a])
           /\ \A t \in Tid : Occurs(t, Q[a]) <=>
                               (Occurs(t, j.waiters[a]) /\ t \notin W),
         NEW r \in {"none", "0", "ETIMEDOUT"}
  PROVE  Wakes(j, MarkRunnable([j EXCEPT !.waiters = Q], W, r))
<1> DEFINE jq == [j EXCEPT !.waiters = Q]
           jr == [jq EXCEPT
                   !.state = [t \in Tid |-> IF t \in W THEN "runnable" ELSE j.state[t]],
                   !.ret   = [t \in Tid |-> IF t \in W THEN r ELSE j.ret[t]]]
           l == MarkRunnable(jq, W, r)
           gone(k) == {t \in W : j.dl[t] # NoDeadline /\ j.kind[t] = k}
           left(k) == j.timed[k] - Cardinality(gone(k))
<1>1. j \in KernelType /\ j.chaosStart <= j.chaosUntil
  BY DEF KernelInv
<1>2. W \subseteq Tid /\ \A t \in W : j.state[t] = "waiting"
  BY DEF Waiting
<1>a. jr \in KernelType
  BY Zenon, <1>1 DEF KernelType
<1>b. l = ClearContextWaitFields(jr, W)
  <2>1. jq.state = j.state /\ jq.ret = j.ret
    BY <1>1 DEF KernelType
  <2>2. {t \in W : jq.state[t] # "exited"} = W
    BY <2>1, <1>2
  <2> HIDE DEF jq
  <2> QED
    BY Zenon, <2>1, <2>2 DEF MarkRunnable
<1>3. /\ l.n = j.n /\ l.cur = j.cur /\ l.waiters = Q
      /\ l.chaosStart = j.chaosStart /\ l.chaosUntil = j.chaosUntil
      /\ l.state = [t \in Tid |-> IF t \in W THEN "runnable" ELSE j.state[t]]
      /\ l.timed = [k \in TimedKinds |-> IF left(k) < 0 THEN 0 ELSE left(k)]
      /\ l.kind  = [t \in Tid |-> IF t \in W THEN "none" ELSE j.kind[t]]
      /\ l.addr  = [t \in Tid |-> IF t \in W THEN NoAddr ELSE j.addr[t]]
      /\ l.dl    = [t \in Tid |-> IF t \in W THEN NoDeadline ELSE j.dl[t]]
  <2>1. /\ jr.n = j.n /\ jr.cur = j.cur /\ jr.waiters = Q
        /\ jr.chaosStart = j.chaosStart /\ jr.chaosUntil = j.chaosUntil
        /\ jr.state = [t \in Tid |-> IF t \in W THEN "runnable" ELSE j.state[t]]
        /\ jr.timed = j.timed /\ jr.kind = j.kind /\ jr.addr = j.addr
        /\ jr.dl = j.dl
    BY <1>1 DEF KernelType
  <2> HIDE DEF jr, l
  <2>2. /\ l.n = jr.n /\ l.cur = jr.cur /\ l.waiters = jr.waiters
        /\ l.chaosStart = jr.chaosStart /\ l.chaosUntil = jr.chaosUntil
        /\ l.state = jr.state
    BY <1>a, <1>b DEF ClearContextWaitFields, KernelType
  <2>3. l.timed = [k \in TimedKinds |-> IF left(k) < 0 THEN 0 ELSE left(k)]
    BY <1>a, <1>b, <2>1 DEF ClearContextWaitFields, KernelType
  <2>4. /\ l.kind = [t \in Tid |-> IF t \in W THEN "none" ELSE j.kind[t]]
        /\ l.addr = [t \in Tid |-> IF t \in W THEN NoAddr ELSE j.addr[t]]
        /\ l.dl = [t \in Tid |-> IF t \in W THEN NoDeadline ELSE j.dl[t]]
    BY <1>a, <1>b, <2>1 DEF ClearContextWaitFields, KernelType
  <2> QED
    BY <2>1, <2>2, <2>3, <2>4
<1> HIDE DEF l
<1>4. \A k \in TimedKinds :
        l.timed[k] = Cardinality(TimedOfKind(l, k)) /\ l.timed[k] \in Nat
  <2> TAKE k \in TimedKinds
  <2>1. TimedOfKind(l, k) = TimedOfKind(j, k) \ W
    BY <1>1, <1>2, <1>3 DEF TimedOfKind, TimedWaiting, Waiting, KernelType
  <2>2. gone(k) = TimedOfKind(j, k) \cap W
    BY <1>2 DEF TimedOfKind, TimedWaiting, Waiting
  <2>3. IsFiniteSet(TimedOfKind(j, k))
    BY TimedFinite
  <2>4. Cardinality(TimedOfKind(l, k)) = j.timed[k] - Cardinality(gone(k))
    <3>1. j.timed[k] = Cardinality(TimedOfKind(j, k))
      BY DEF KernelInv, CountersExact
    <3>2. Cardinality(TimedOfKind(j, k) \ W) =
            Cardinality(TimedOfKind(j, k)) - Cardinality(TimedOfKind(j, k) \cap W)
      BY Zenon, <2>3, FS_Difference
    <3> QED
      BY Zenon, <2>1, <2>2, <3>1, <3>2
  <2>5. Cardinality(TimedOfKind(l, k)) \in Nat
    BY Zenon, <2>1, <2>3, FS_Difference, FS_CardinalityType
  <2>6. l.timed[k] = IF left(k) < 0 THEN 0 ELSE left(k)
    BY <1>1, <1>3 DEF KernelType
  <2> QED
    BY <2>4, <2>5, <2>6
<1>5. l \in KernelType
  <2>1. l.timed \in [TimedKinds -> Nat]
    BY <1>1, <1>3, <1>4 DEF KernelType
  <2>2. l.timed = [k \in TimedKinds |-> IF left(k) < 0 THEN 0 ELSE left(k)]
    BY <1>3
  <2> QED
    BY <1>1, <1>a, <1>b, <2>1, ZenonT(60) DEF KernelType, ClearContextWaitFields
<1>6. QueuesExact(l)
  <2>1. l.waiters = Q
    BY <1>1, <1>3 DEF KernelType
  <2>2. \A t \in Tid :
          /\ t \in W => l.state[t] = "runnable"
          /\ t \notin W => /\ l.state[t] = j.state[t]
                           /\ l.kind[t] = j.kind[t]
                           /\ l.addr[t] = j.addr[t]
    BY <1>3
  <2> SUFFICES ASSUME NEW a \in Addrs
               PROVE  /\ \A t \in Tid : Occurs(t, Q[a]) <=>
                            (/\ l.state[t] = "waiting"
                             /\ l.kind[t] = "futex"
                             /\ l.addr[t] = a)
                      /\ Distinct(Q[a])
    BY <2>1 DEF QueuesExact, Distinct
  <2>3. \A t \in Tid : Occurs(t, j.waiters[a]) <=>
             (j.state[t] = "waiting" /\ j.kind[t] = "futex" /\ j.addr[t] = a)
    BY DEF KernelInv, QueuesExact
  <2>4. ASSUME NEW t \in Tid
        PROVE  Occurs(t, Q[a]) <=> (/\ l.state[t] = "waiting"
                                    /\ l.kind[t] = "futex"
                                    /\ l.addr[t] = a)
    <3>1. CASE t \in W
      <4>1. ~ Occurs(t, Q[a])
        BY <3>1, Zenon
      <4>2. l.state[t] = "runnable"
        BY <3>1, <2>2, Zenon
      <4> QED
        BY <4>1, <4>2, Zenon
    <3>2. CASE t \notin W
      <4>1. Occurs(t, Q[a]) <=> Occurs(t, j.waiters[a])
        BY <3>2, Zenon
      <4>2. l.state[t] = j.state[t] /\ l.kind[t] = j.kind[t] /\ l.addr[t] = j.addr[t]
        BY <3>2, <2>2, Zenon
      <4> QED
        BY <4>1, <4>2, <2>3, Zenon
    <3> QED
      BY <3>1, <3>2
  <2> QED
    BY <2>4
<1>7. WaitFieldsExact(l)
  BY <1>1, <1>2, <1>3 DEF WaitFieldsExact, KernelInv, KernelType
<1>8. l.chaosStart <= l.chaosUntil /\ l.cur = j.cur
  BY <1>1, <1>3 DEF KernelType
<1>9. \A t \in Tid : j.state[t] = "runnable" => l.state[t] = "runnable"
  BY <1>1, <1>3 DEF KernelType
<1> QED
  BY <1>4, <1>5, <1>6, <1>7, <1>8, <1>9 DEF Wakes, KernelInv, CountersExact, l


\* A state relates to itself: an operator that returns early wakes nobody.
LEMMA WakesSelf ==
  ASSUME NEW j, KernelInv(j)
  PROVE  Wakes(j, j)
BY DEF Wakes

\* Setting the clock, or the blocked flag, wakes nobody and breaks nothing.
LEMMA SetNow ==
  ASSUME NEW j, KernelInv(j), NEW d \in Nat
  PROVE  Wakes(j, [j EXCEPT !.now = d])
<1> DEFINE l == [j EXCEPT !.now = d]
<1>1. j \in KernelType /\ j.chaosStart <= j.chaosUntil
  BY DEF KernelInv
<1>2. /\ l \in KernelType
      /\ l.n = j.n /\ l.state = j.state /\ l.kind = j.kind /\ l.addr = j.addr
      /\ l.dl = j.dl /\ l.waiters = j.waiters /\ l.timed = j.timed
      /\ l.cur = j.cur /\ l.chaosStart <= l.chaosUntil
  BY Zenon, <1>1 DEF KernelType
<1> HIDE DEF l
<1>3. KernelInv(l)
  BY <1>2, Frame
<1> QED
  BY <1>2, <1>3 DEF Wakes, l

\* Setting jos.blocked and blockedUntil touches nothing the invariant reads.
LEMMA SetBlocked ==
  ASSUME NEW j, KernelInv(j), NEW b \in BOOLEAN, NEW u \in Nat \cup {NoDeadline}
  PROVE  Wakes(j, [j EXCEPT !.blocked = b, !.until = u])
<1> DEFINE l == [j EXCEPT !.blocked = b, !.until = u]
<1>1. j \in KernelType /\ j.chaosStart <= j.chaosUntil
  BY DEF KernelInv
<1>2. /\ l \in KernelType
      /\ l.n = j.n /\ l.state = j.state /\ l.kind = j.kind /\ l.addr = j.addr
      /\ l.dl = j.dl /\ l.waiters = j.waiters /\ l.timed = j.timed
      /\ l.cur = j.cur /\ l.chaosStart <= l.chaosUntil
  BY Zenon, <1>1 DEF KernelType
<1> HIDE DEF l
<1>3. KernelInv(l)
  BY <1>2, Frame
<1> QED
  BY <1>2, <1>3 DEF Wakes, l

\* refreshFutexTimeouts, refreshEpollTimeouts and refreshNanosleepTimeouts.
LEMMA RefreshTimeoutsWakes ==
  ASSUME NEW j, KernelInv(j), NEW k \in TimedKinds
  PROVE  Wakes(j, RefreshTimeouts(j, k))
<1> DEFINE expired == {t \in TimedOfKind(j, k) : j.dl[t] <= j.now}
           Q == [a \in Addrs |-> Without(j.waiters[a], expired)]
<1>1. expired \in SUBSET Waiting(j) /\ \A t \in expired : j.kind[t] = k
  BY DEF TimedOfKind, TimedWaiting
<1>2. j \in KernelType /\ j.waiters \in [Addrs -> Seq(Tid)]
  BY DEF KernelInv, KernelType
<1>3. \A a \in Addrs : Distinct(j.waiters[a])
  BY DEF KernelInv, QueuesExact, Distinct
<1>4. CASE j.timed[k] = 0
  BY <1>4, WakesSelf DEF RefreshTimeouts
<1>5. CASE j.timed[k] # 0 /\ k = "futex"
  <2>1. ASSUME NEW a \in Addrs
        PROVE  /\ Without(j.waiters[a], expired) \in Seq(Tid)
               /\ Distinct(Without(j.waiters[a], expired))
               /\ \A t : Occurs(t, Without(j.waiters[a], expired)) <=>
                           (Occurs(t, j.waiters[a]) /\ t \notin expired)
    <3>1. j.waiters[a] \in Seq(Tid)
      BY <1>2
    <3> HIDE DEF expired
    <3> QED
      BY <3>1, <1>3, WithoutProperties
  <2>2. /\ Q \in [Addrs -> Seq(Tid)]
        /\ \A a \in Addrs :
             /\ Distinct(Q[a])
             /\ \A t \in Tid : Occurs(t, Q[a]) <=>
                               (Occurs(t, j.waiters[a]) /\ t \notin expired)
    BY <2>1, Zenon
  <2>3. RefreshTimeouts(j, k) =
          MarkRunnable([j EXCEPT !.waiters = Q], expired, "ETIMEDOUT")
    BY <1>5 DEF RefreshTimeouts, RemoveFutexWaiters
  <2> HIDE DEF Q, expired
  <2> QED
    BY Zenon, <1>1, <2>2, <2>3, WakeUp
<1>6. CASE j.timed[k] # 0 /\ k # "futex"
  <2>1. \A a \in Addrs : \A t \in Tid :
          Occurs(t, j.waiters[a]) <=> (Occurs(t, j.waiters[a]) /\ t \notin expired)
    <3> SUFFICES ASSUME NEW a \in Addrs, NEW t \in Tid, Occurs(t, j.waiters[a])
                 PROVE  t \notin expired
      BY Zenon
    <3>1. j.kind[t] = "futex"
      BY Zenon DEF KernelInv, QueuesExact
    <3> HIDE DEF expired
    <3> QED
      BY <3>1, <1>1, <1>6, Zenon
  <2>2. [j EXCEPT !.waiters = j.waiters] = j
    BY <1>2 DEF KernelType
  <2>3. RefreshTimeouts(j, k) = MarkRunnable(j, expired, "0")
    BY <1>6 DEF RefreshTimeouts
  <2> HIDE DEF expired
  <2>4. Wakes(j, MarkRunnable([j EXCEPT !.waiters = j.waiters], expired, "0"))
    BY Zenon, <1>1, <1>2, <1>3, <2>1, WakeUp
  <2> QED
    BY <2>2, <2>3, <2>4
<1> QED
  BY <1>4, <1>5, <1>6

\* refreshBlocked: the scans for expired futex, sleep and epoll waits only wake.
LEMMA RefreshBlockedWakes ==
  ASSUME NEW j, KernelInv(j)
  PROVE  Wakes(j, RefreshBlocked(j))
<1> DEFINE a == RefreshTimeouts(j, "futex")
           b == RefreshTimeouts(a, "epoll")
           c == RefreshTimeouts(b, "nanosleep")
<1>1. Wakes(j, a)
  BY RefreshTimeoutsWakes DEF TimedKinds
<1>2. KernelInv(a)
  BY <1>1 DEF Wakes
<1> HIDE DEF a
<1>3. Wakes(a, b)
  BY <1>2, RefreshTimeoutsWakes DEF TimedKinds
<1>4. KernelInv(b)
  BY <1>3 DEF Wakes
<1> HIDE DEF b
<1>5. Wakes(b, c)
  BY <1>4, RefreshTimeoutsWakes DEF TimedKinds
<1>6. KernelInv(c)
  BY <1>5 DEF Wakes
<1> HIDE DEF c
<1>7. Wakes(j, c)
  BY SMTT(30), <1>1, <1>3, <1>5, WakesTransitive
<1>8. Wakes(c, [c EXCEPT !.blocked = FALSE, !.until = NoDeadline])
  BY Zenon, <1>6, SetBlocked
<1>9. \/ RefreshBlocked(j) = c
      \/ RefreshBlocked(j) = [c EXCEPT !.blocked = FALSE, !.until = NoDeadline]
  BY DEF RefreshBlocked, UnblockIfOver, UnblockIf, a, b, c
<1> QED
  BY <1>7, <1>8, <1>9, WakesTransitive

-----------------------------------------------------------------------------
\* Opening and closing a starvation window.
LEMMA SetWindow ==
  ASSUME NEW j, KernelInv(j), NEW on \in BOOLEAN, NEW from \in Nat,
         NEW to \in Nat, NEW spent \in Nat, from <= to
  PROVE  Wakes(j, [j EXCEPT !.chaosSpent = spent, !.chaosOn = on,
                            !.chaosStart = from, !.chaosUntil = to])
<1> DEFINE l == [j EXCEPT !.chaosSpent = spent, !.chaosOn = on,
                          !.chaosStart = from, !.chaosUntil = to]
<1>1. j \in KernelType
  BY DEF KernelInv
<1>2. /\ l \in KernelType
      /\ l.n = j.n /\ l.state = j.state /\ l.kind = j.kind /\ l.addr = j.addr
      /\ l.dl = j.dl /\ l.waiters = j.waiters /\ l.timed = j.timed
      /\ l.cur = j.cur /\ l.chaosStart <= l.chaosUntil
  BY Zenon, <1>1 DEF KernelType
<1> HIDE DEF l
<1>3. KernelInv(l)
  BY <1>2, Frame
<1> QED
  BY <1>2, <1>3 DEF Wakes, l

\* refreshChaosWindow only closes an expired window.
LEMMA RefreshChaosWindowWakes ==
  ASSUME NEW j, KernelInv(j)
  PROVE  Wakes(j, RefreshChaosWindow(j))
<1> DEFINE spent == j.chaosSpent + (j.chaosUntil - j.chaosStart)
<1>1. spent \in Nat
  BY DEF KernelInv, KernelType
<1>2. Wakes(j, [j EXCEPT !.chaosSpent = spent, !.chaosOn = FALSE,
                         !.chaosStart = 0, !.chaosUntil = 0])
  <2> HIDE DEF spent
  <2>1. 0 \in Nat /\ 0 <= 0 /\ FALSE \in BOOLEAN
    OBVIOUS
  <2> QED
    BY <1>1, <2>1, SetWindow, Zenon
<1> QED
  BY <1>2, WakesSelf DEF RefreshChaosWindow

\* startChaosWindow opens a window that ends no earlier than it starts.
LEMMA StartChaosWindowWakes ==
  ASSUME NEW j, KernelInv(j), NEW dur \in Nat
  PROVE  Wakes(j, StartChaosWindow(j, dur))
<1> DEFINE l == RefreshChaosWindow(j)
           left == RemainingChaosBudgetNS(l)
           len == IF dur > left THEN left ELSE dur
           m == [l EXCEPT !.chaosOn = TRUE, !.chaosStart = l.now,
                          !.chaosUntil = l.now + len]
<1>1. Wakes(j, l) /\ KernelInv(l)
  BY RefreshChaosWindowWakes DEF Wakes
<1> HIDE DEF l
<1>2. StartChaosWindow(j, dur) = l \/ (left > 0 /\ StartChaosWindow(j, dur) = m)
  <2>1. left \in Int
    BY SMTT(30), <1>1, ChaosAssumption DEF RemainingChaosBudgetNS, KernelInv, KernelType
  <2> HIDE DEF left
  <2> QED
    BY <2>1 DEF StartChaosWindow, OpenChaosWindow, l, left
<1>3. ASSUME left > 0 PROVE Wakes(l, m)
  <2>1. left \in Int
    BY <1>1, ChaosAssumption DEF RemainingChaosBudgetNS, KernelInv, KernelType
  <2> HIDE DEF left
  <2>2. len \in Nat
    BY <1>3, <2>1
  <2> HIDE DEF len
  <2>3. l.now \in Nat /\ l.now + len \in Nat /\ l.now <= l.now + len
        /\ l.chaosSpent \in Nat
    BY <1>1, <2>2 DEF KernelInv, KernelType
  <2>4. m = [l EXCEPT !.chaosSpent = l.chaosSpent, !.chaosOn = TRUE,
                      !.chaosStart = l.now, !.chaosUntil = l.now + len]
    BY Zenon, <1>1 DEF KernelInv, KernelType
  <2> HIDE DEF m
  <2> QED
    BY Zenon, <1>1, <2>3, <2>4, SetWindow
<1> QED
  BY <1>1, <1>2, <1>3, WakesTransitive

-----------------------------------------------------------------------------
\* The clock operators.
LEMMA DeadlinesNat ==
  ASSUME NEW j, j \in KernelType
  PROVE  WaitDeadlines(j) \in SUBSET Nat
BY DEF WaitDeadlines, TimedWaiting, Waiting, KernelType

\* advanceVirtualClockTowardDeadline only moves the clock and wakes.
LEMMA AdvanceTowardWakes ==
  ASSUME NEW j, KernelInv(j), NEW deadline \in Nat, NEW step \in Nat
  PROVE  Wakes(j, AdvanceVirtualClockTowardDeadline(j, deadline, step))
<1> DEFINE target == IF /\ j.chaosOn
                        /\ j.chaosUntil > j.now
                        /\ j.chaosUntil < deadline
                     THEN j.chaosUntil ELSE deadline
           gap == target - j.now
           delta == IF ClockPolicy \in {"PRNG", "Fixed"} /\ step < gap
                    THEN step ELSE gap
           l == [j EXCEPT !.now = j.now + delta]
<1>1. CASE deadline <= j.now
  BY <1>1, WakesSelf DEF AdvanceVirtualClockTowardDeadline
<1>2. CASE ~(deadline <= j.now)
  <2>1. j.now + delta \in Nat
    BY <1>2 DEF KernelInv, KernelType
  <2> HIDE DEF delta
  <2>2. Wakes(j, l) /\ KernelInv(l)
    BY <2>1, SetNow DEF Wakes
  <2> HIDE DEF l
  <2>3. Wakes(l, RefreshChaosWindow(l)) /\ KernelInv(RefreshChaosWindow(l))
    BY <2>2, RefreshChaosWindowWakes DEF Wakes
  <2>4. Wakes(RefreshChaosWindow(l), RefreshBlocked(RefreshChaosWindow(l)))
    BY <2>3, RefreshBlockedWakes
  <2>5. AdvanceVirtualClockTowardDeadline(j, deadline, step) =
          RefreshBlocked(RefreshChaosWindow(l))
    BY <1>2 DEF AdvanceVirtualClockTowardDeadline, l, delta
  <2> QED
    BY <2>2, <2>3, <2>4, <2>5, WakesTransitive
<1> QED
  BY <1>1, <1>2

\* advanceVirtualClockForSchedulerEvent only moves the clock, draws windows and wakes.
LEMMA SchedulerEventWakes ==
  ASSUME NEW j, KernelInv(j), NEW step \in Nat
  PROVE  Wakes(j, AdvanceVirtualClockForSchedulerEvent(j, step))
<1> DEFINE j1 == IF ClockPolicy = "Chaos" THEN RefreshChaosWindow(j) ELSE j
           dl == MinOf(WaitDeadlines(j1))
           then == IF dl > j1.now THEN dl ELSE j1.now
<1>1. Wakes(j, j1) /\ KernelInv(j1)
  BY RefreshChaosWindowWakes, WakesSelf DEF Wakes
<1>2. ASSUME NEW l, KernelInv(l), NEW d \in Nat
      PROVE  Wakes(l, RefreshBlocked([l EXCEPT !.now = d]))
  <2>1. Wakes(l, [l EXCEPT !.now = d]) /\ KernelInv([l EXCEPT !.now = d])
    BY <1>2, SetNow DEF Wakes
  <2> QED
    BY <2>1, RefreshBlockedWakes, WakesTransitive
<1>3. CASE ClockPolicy \in {"PRNG", "Fixed"}
  <2>1. j.now + step \in Nat
    BY DEF KernelInv, KernelType
  <2>2. AdvanceVirtualClockForSchedulerEvent(j, step) =
          RefreshBlocked([j EXCEPT !.now = j.now + step])
    BY <1>3 DEF AdvanceVirtualClockForSchedulerEvent
  <2> QED
    BY <1>2, <2>1, <2>2
<1>4. CASE ClockPolicy \notin {"PRNG", "Fixed"}
  <2> HIDE DEF j1
  <2>1. \/ AdvanceVirtualClockForSchedulerEvent(j, step) = j1
        \/ /\ WaitDeadlines(j1) # {}
           /\ AdvanceVirtualClockForSchedulerEvent(j, step) =
                RefreshBlocked([j1 EXCEPT !.now = then])
    BY <1>4 DEF AdvanceVirtualClockForSchedulerEvent, JumpIfIdle, j1
  <2>2. ASSUME WaitDeadlines(j1) # {} PROVE then \in Nat
    <3>1. j1 \in KernelType /\ j1.now \in Nat
      BY <1>1 DEF KernelInv, KernelType
    <3>2. WaitDeadlines(j1) \in SUBSET Nat
      BY <3>1, DeadlinesNat
    <3>3. dl \in Nat
      BY <3>2, <2>2, MinOfMember
    <3> QED
      BY <3>1, <3>3
  <2> HIDE DEF then
  <2> QED
    BY <1>1, <1>2, <2>1, <2>2, WakesTransitive
<1> QED
  BY <1>3, <1>4

\* advanceVirtualClockWhenNoRunnableCandidate only moves the clock and wakes.
LEMMA NoCandidateWakes ==
  ASSUME NEW j, KernelInv(j), NEW step \in Nat
  PROVE  Wakes(j, AdvanceVirtualClockWhenNoRunnableCandidate(j, step))
<1> DEFINE goals == WaitDeadlines(j) \cup
                    (IF j.chaosOn /\ j.chaosUntil > j.now THEN {j.chaosUntil} ELSE {})
<1>1. goals \in SUBSET Nat
  <2>1. j \in KernelType
    BY DEF KernelInv
  <2>2. j.chaosUntil \in Nat
    BY <2>1 DEF KernelType
  <2>3. WaitDeadlines(j) \in SUBSET Nat
    BY <2>1, DeadlinesNat
  <2> QED
    BY <2>2, <2>3
<1>2. ASSUME goals # {}
      PROVE  Wakes(j, AdvanceVirtualClockTowardDeadline(j, MinOf(goals), step))
  <2> HIDE DEF goals
  <2>1. MinOf(goals) \in Nat
    BY Zenon, <1>1, <1>2, MinOfMember
  <2> QED
    BY <2>1, AdvanceTowardWakes
<1>3. \/ goals # {} /\ AdvanceVirtualClockWhenNoRunnableCandidate(j, step) =
                         AdvanceVirtualClockTowardDeadline(j, MinOf(goals), step)
      \/ AdvanceVirtualClockWhenNoRunnableCandidate(j, step) =
           AdvanceVirtualClockForSchedulerEvent(j, step)
      \/ AdvanceVirtualClockWhenNoRunnableCandidate(j, step) = j
  BY DEF AdvanceVirtualClockWhenNoRunnableCandidate
<1> QED
  BY <1>2, <1>3, SchedulerEventWakes, WakesSelf

-----------------------------------------------------------------------------
\* wakeFutex.
LEMMA WakeFutexWakes ==
  ASSUME NEW j, KernelInv(j), NEW a \in Addrs, NEW limit \in Nat
  PROVE  Wakes(j, WakeFutex(j, a, limit))
<1> DEFINE q == j.waiters[a]
           m == IF limit < Len(q) THEN limit ELSE Len(q)
           woken == {q[i] : i \in 1..m}
           rest == SubSeq(q, m + 1, Len(q))
           Q == [j.waiters EXCEPT ![a] = rest]
           l == MarkRunnable([j EXCEPT !.waiters = Q], woken, "0")
<1>1. /\ j \in KernelType /\ j.waiters \in [Addrs -> Seq(Tid)] /\ q \in Seq(Tid)
      /\ Len(q) \in Nat /\ DOMAIN q = 1..Len(q) /\ \A i \in 1..Len(q) : q[i] \in Tid
  BY SequenceShape DEF KernelInv, KernelType
<1>2. m \in 0..Len(q)
  BY <1>1
<1>3. \A t \in Tid : \A b \in Addrs : Occurs(t, j.waiters[b]) <=>
           (j.state[t] = "waiting" /\ j.kind[t] = "futex" /\ j.addr[t] = b)
  BY DEF KernelInv, QueuesExact
<1>4. \A b \in Addrs : Distinct(j.waiters[b])
  BY DEF KernelInv, QueuesExact, Distinct
<1> HIDE DEF m
<1>5. /\ rest \in Seq(Tid) /\ Len(rest) = Len(q) - m /\ DOMAIN rest = 1..Len(q) - m
      /\ \A i \in 1..Len(q) - m : rest[i] = q[m + i]
  BY <1>1, <1>2
<1>6. \A i \in 1..m : Occurs(q[i], q) /\ q[i] \in Tid
  BY <1>1, <1>2 DEF Occurs
<1>7. woken \in SUBSET Waiting(j)
  BY <1>3, <1>6 DEF Waiting
<1>8. Distinct(q)
  BY <1>4
<1> HIDE DEF rest
<1>9. Distinct(rest)
  <2> SUFFICES ASSUME NEW i \in 1..Len(q) - m, NEW k \in 1..Len(q) - m,
                      rest[i] = rest[k]
               PROVE  i = k
    BY <1>5 DEF Distinct
  <2>1. m + i \in DOMAIN q /\ m + k \in DOMAIN q /\ q[m + i] = q[m + k]
    BY <1>1, <1>2, <1>5
  <2>2. m + i = m + k
    BY <2>1, <1>8 DEF Distinct
  <2> QED
    BY <2>2, <1>1, <1>2
<1>10. \A t \in Tid : Occurs(t, rest) <=> (Occurs(t, q) /\ t \notin woken)
  <2> TAKE t \in Tid
  <2>1. ASSUME Occurs(t, rest) PROVE Occurs(t, q) /\ t \notin woken
    <3>1. PICK i \in 1..Len(q) - m : rest[i] = t
      BY <2>1, <1>5 DEF Occurs
    <3>2. m + i \in DOMAIN q /\ q[m + i] = t
      BY <3>1, <1>1, <1>2, <1>5
    <3>3. ASSUME NEW h \in 1..m PROVE q[h] # t
      <4>1. h \in DOMAIN q /\ h # m + i
        BY <1>1, <1>2
      <4> QED
        BY <4>1, <3>2, <1>8 DEF Distinct
    <3> QED
      BY <3>2, <3>3 DEF Occurs
  <2>2. ASSUME Occurs(t, q), t \notin woken PROVE Occurs(t, rest)
    <3>1. PICK i \in 1..Len(q) : q[i] = t
      BY <2>2, <1>1 DEF Occurs
    <3>2. i \notin 1..m
      BY <3>1, <2>2
    <3>3. i - m \in 1..Len(q) - m /\ rest[i - m] = t
      BY <3>1, <3>2, <1>1, <1>2, <1>5
    <3> QED
      BY <3>3, <1>5 DEF Occurs
  <2> QED
    BY <2>1, <2>2
<1>11. Q \in [Addrs -> Seq(Tid)]
  BY <1>1, <1>5
<1>12. ASSUME NEW b \in Addrs
       PROVE  /\ Distinct(Q[b])
              /\ \A t \in Tid : Occurs(t, Q[b]) <=>
                                (Occurs(t, j.waiters[b]) /\ t \notin woken)
  <2>1. CASE b = a
    BY <2>1, <1>1, <1>9, <1>10
  <2>2. CASE b # a
    <3>1. Q[b] = j.waiters[b]
      BY <2>2, <1>1
    <3>2. ASSUME NEW t \in Tid, t \in woken PROVE ~ Occurs(t, j.waiters[b])
      <4>1. j.addr[t] = a
        BY <3>2, <1>3, <1>6
      <4> QED
        BY <4>1, <2>2, <1>3
    <3> QED
      BY <3>1, <3>2, <1>4, Zenon
  <2> QED
    BY <2>1, <2>2
<1> HIDE DEF Q, woken
<1>13. Wakes(j, l) /\ KernelInv(l)
  BY Zenon, <1>7, <1>11, <1>12, WakeUp DEF Wakes
<1>14. Wakes(l, [l EXCEPT !.blocked = FALSE, !.until = NoDeadline])
  BY Zenon, <1>13, SetBlocked
<1>15. \/ WakeFutex(j, a, limit) = l
       \/ WakeFutex(j, a, limit) = [l EXCEPT !.blocked = FALSE, !.until = NoDeadline]
  BY Zenon, <1>1 DEF WakeFutex, UnblockIfRunnable, UnblockIf, l, Q, rest, m, woken
<1> QED
  BY <1>13, <1>14, <1>15, WakesTransitive

-----------------------------------------------------------------------------
\* Clearing the wait fields of a context that does not wait changes nothing.
LEMMA ClearIdle ==
  ASSUME NEW j, j \in KernelType, NEW t \in Tid,
         j.kind[t] = "none", j.addr[t] = NoAddr, j.dl[t] = NoDeadline
  PROVE  ClearContextWaitFields(j, {t}) = j
<1> DEFINE gone(k) == {u \in {t} : j.dl[u] # NoDeadline /\ j.kind[u] = k}
           left(k) == j.timed[k] - Cardinality(gone(k))
<1>1. \A k \in TimedKinds : gone(k) = {}
  OBVIOUS
<1>2. \A k \in TimedKinds : left(k) = j.timed[k] /\ j.timed[k] \in Nat
  <2> TAKE k \in TimedKinds
  <2>1. j.timed[k] \in Nat
    BY DEF KernelType
  <2>2. Cardinality(gone(k)) = 0
    BY <1>1, FS_EmptySet
  <2> HIDE DEF gone
  <2> QED
    BY <2>1, <2>2
<1>3. [k \in TimedKinds |-> IF left(k) < 0 THEN 0 ELSE left(k)] = j.timed
  <2> HIDE DEF left
  <2> QED
    BY <1>2 DEF KernelType
<1>4. /\ [u \in Tid |-> IF u \in {t} THEN "none" ELSE j.kind[u]] = j.kind
      /\ [u \in Tid |-> IF u \in {t} THEN NoAddr ELSE j.addr[u]] = j.addr
      /\ [u \in Tid |-> IF u \in {t} THEN NoDeadline ELSE j.dl[u]] = j.dl
  BY DEF KernelType
<1>5. ClearContextWaitFields(j, {t}) =
        [j EXCEPT !.timed = j.timed, !.kind = j.kind, !.addr = j.addr, !.dl = j.dl]
  BY Zenon, <1>3, <1>4 DEF ClearContextWaitFields
<1> QED
  BY <1>5, ZenonT(60) DEF KernelType

\* The current context enters a wait.
LEMMA EnterWaitInv ==
  ASSUME NEW j, KernelInv(j), j.state[j.cur] = "runnable",
         NEW k \in TimedKinds, NEW a \in Addrs \cup {NoAddr},
         (k = "futex") <=> (a # NoAddr),
         NEW deadline \in Nat \cup {NoDeadline}
  PROVE  KernelInv(EnterWait(j, k, a, deadline))
<1> DEFINE t == j.cur
           j0 == [j EXCEPT !.state[t] = "waiting"]
           more == IF deadline = NoDeadline THEN 0 ELSE 1
           j2 == [j0 EXCEPT !.kind[t] = k, !.addr[t] = a, !.dl[t] = deadline,
                            !.timed[k] = @ + more]
           l == EnterWait(j, k, a, deadline)
           Q == IF a = NoAddr THEN j.waiters
                ELSE [j.waiters EXCEPT ![a] = Append(@, t)]
<1>1. /\ j \in KernelType /\ j.chaosStart <= j.chaosUntil /\ t \in Tid
      /\ j.waiters \in [Addrs -> Seq(Tid)]
  BY DEF KernelInv, KernelType
<1>2. j.kind[t] = "none" /\ j.addr[t] = NoAddr /\ j.dl[t] = NoDeadline
  BY <1>1 DEF KernelInv, WaitFieldsExact
<1>3. /\ j0 \in KernelType
      /\ j0.kind = j.kind /\ j0.addr = j.addr /\ j0.dl = j.dl /\ j0.timed = j.timed
      /\ j0.waiters = j.waiters /\ j0.n = j.n /\ j0.cur = t
      /\ j0.state = [j.state EXCEPT ![t] = "waiting"]
      /\ j0.chaosStart = j.chaosStart /\ j0.chaosUntil = j.chaosUntil
  BY Zenon, <1>1 DEF KernelType
<1> HIDE DEF j0
<1>4. ClearContextWaitFields(j0, {t}) = j0
  BY <1>1, <1>2, <1>3, ClearIdle
<1>5. l = IF a = NoAddr THEN j2 ELSE [j2 EXCEPT !.waiters[a] = Append(@, t)]
  <2>1. l = BeginWait(j0, k, a, deadline)
    BY <1>4 DEF EnterWait, j0
  <2> QED
    BY <2>1, <1>3 DEF BeginWait
<1>6. Q \in [Addrs -> Seq(Tid)]
  BY <1>1
<1>7. /\ j2 \in KernelType
      /\ j2.waiters = j.waiters /\ j2.n = j.n
      /\ j2.state = [j.state EXCEPT ![t] = "waiting"]
      /\ j2.kind = [j.kind EXCEPT ![t] = k]
      /\ j2.addr = [j.addr EXCEPT ![t] = a]
      /\ j2.dl = [j.dl EXCEPT ![t] = deadline]
      /\ j2.timed = [j.timed EXCEPT ![k] = j.timed[k] + more]
      /\ j2.chaosStart <= j2.chaosUntil
  <2>1. j0.timed[k] + more \in Nat
    BY <1>3 DEF KernelType
  <2> HIDE DEF more
  <2>2. j2 \in KernelType
    BY Zenon, <1>1, <1>3, <2>1 DEF KernelType
  <2>3. /\ j2.waiters = j0.waiters /\ j2.n = j0.n /\ j2.state = j0.state
        /\ j2.chaosStart = j0.chaosStart /\ j2.chaosUntil = j0.chaosUntil
    BY <1>3 DEF KernelType
  <2>4. /\ j2.kind = [j0.kind EXCEPT ![t] = k]
        /\ j2.addr = [j0.addr EXCEPT ![t] = a]
        /\ j2.dl = [j0.dl EXCEPT ![t] = deadline]
        /\ j2.timed = [j0.timed EXCEPT ![k] = j0.timed[k] + more]
    BY Zenon, <1>3 DEF KernelType
  <2> HIDE DEF j2
  <2> QED
    BY <1>1, <1>3, <2>2, <2>3, <2>4
<1> HIDE DEF j2, l
<1>8. l = [j2 EXCEPT !.waiters = Q]
  <2>1. CASE a = NoAddr
    <3>1. [j2 EXCEPT !.waiters = j2.waiters] = j2
      BY <1>7 DEF KernelType
    <3> QED
      BY <3>1, <2>1, <1>5, <1>7
  <2>2. CASE a # NoAddr
    <3>1. Q = [j2.waiters EXCEPT ![a] = Append(@, t)]
      BY <2>2, <1>7
    <3> QED
      BY <3>1, <2>2, <1>5, Zenon
  <2> QED
    BY <2>1, <2>2
<1> HIDE DEF Q
<1>9. /\ l \in KernelType
      /\ l.waiters = Q /\ l.n = j.n
      /\ l.state = [j.state EXCEPT ![t] = "waiting"]
      /\ l.kind = [j.kind EXCEPT ![t] = k]
      /\ l.addr = [j.addr EXCEPT ![t] = a]
      /\ l.dl = [j.dl EXCEPT ![t] = deadline]
      /\ l.timed = [j.timed EXCEPT ![k] = j.timed[k] + more]
      /\ l.chaosStart <= l.chaosUntil
  BY Zenon, <1>6, <1>7, <1>8 DEF KernelType
<1>10. ASSUME NEW u \in Tid, u # t
       PROVE  /\ l.state[u] = j.state[u] /\ l.kind[u] = j.kind[u]
              /\ l.addr[u] = j.addr[u] /\ l.dl[u] = j.dl[u]
  BY <1>1, <1>9, <1>10 DEF KernelType
<1>11. l.state[t] = "waiting" /\ l.kind[t] = k /\ l.addr[t] = a /\ l.dl[t] = deadline
  BY <1>1, <1>9 DEF KernelType
<1>12. QueuesExact(l)
  <2> SUFFICES ASSUME NEW b \in Addrs
               PROVE  /\ \A u \in Tid : Occurs(u, Q[b]) <=>
                           (l.state[u] = "waiting" /\ l.kind[u] = "futex" /\ l.addr[u] = b)
                      /\ Distinct(Q[b])
    BY <1>9 DEF QueuesExact, Distinct
  <2>1. \A u \in Tid : Occurs(u, j.waiters[b]) <=>
           (j.state[u] = "waiting" /\ j.kind[u] = "futex" /\ j.addr[u] = b)
    BY DEF KernelInv, QueuesExact
  <2>2. Distinct(j.waiters[b])
    BY DEF KernelInv, QueuesExact, Distinct
  <2>3. ~ Occurs(t, j.waiters[b])
    BY <2>1, <1>1, Zenon
  <2>4. CASE b # a
    <3>1. Q[b] = j.waiters[b]
      BY <2>4, <1>1 DEF Q
    <3>2. ASSUME NEW u \in Tid
          PROVE  Occurs(u, Q[b]) <=>
                   (l.state[u] = "waiting" /\ l.kind[u] = "futex" /\ l.addr[u] = b)
      <4>1. CASE u = t
        BY <4>1, <3>1, <2>3, <2>4, <1>11, Zenon
      <4>2. CASE u # t
        <5>1. /\ l.state[u] = j.state[u] /\ l.kind[u] = j.kind[u]
              /\ l.addr[u] = j.addr[u]
          BY <4>2, <1>10
        <5> QED
          BY <5>1, <3>1, <2>1, Zenon
      <4> QED
        BY <4>1, <4>2
    <3> QED
      BY <3>1, <3>2, <2>2, Zenon
  <2>5. CASE b = a
    <3>1. Q[b] = Append(j.waiters[b], t) /\ a # NoAddr /\ k = "futex"
      BY <2>5, <1>1, NoAddrAssumption DEF Q
    <3> DEFINE q == j.waiters[b]
               p == Append(q, t)
    <3>2. /\ q \in Seq(Tid) /\ Len(q) \in Nat /\ DOMAIN q = 1..Len(q)
          /\ DOMAIN p = 1..Len(q) + 1 /\ p[Len(q) + 1] = t
          /\ \A i \in 1..Len(q) : p[i] = q[i]
      BY <1>1
    <3> HIDE DEF p
    <3>3. \A u \in Tid : Occurs(u, p) <=> (Occurs(u, q) \/ u = t)
      BY <3>2, SMTT(30) DEF Occurs
    <3>4. Distinct(p)
      <4>1. \A i \in 1..Len(q) : q[i] # t
        BY <3>2, <2>3 DEF Occurs
      <4> SUFFICES ASSUME NEW i \in 1..Len(q) + 1, NEW h \in 1..Len(q) + 1,
                          p[i] = p[h]
                   PROVE  i = h
        BY <3>2 DEF Distinct
      <4>2. CASE i \in 1..Len(q) /\ h \in 1..Len(q)
        BY <4>2, <3>2, <2>2 DEF Distinct
      <4>3. CASE i = Len(q) + 1 \/ h = Len(q) + 1
        BY <4>3, <4>1, <3>2
      <4> QED
        BY <4>2, <4>3, <3>2, SMTT(30)
    <3>5. ASSUME NEW u \in Tid
          PROVE  Occurs(u, p) <=>
                   (l.state[u] = "waiting" /\ l.kind[u] = "futex" /\ l.addr[u] = b)
      <4>1. CASE u = t
        BY <4>1, <3>1, <3>3, <2>5, <1>11, Zenon
      <4>2. CASE u # t
        <5>1. /\ l.state[u] = j.state[u] /\ l.kind[u] = j.kind[u]
              /\ l.addr[u] = j.addr[u]
          BY <4>2, <1>10
        <5> QED
          BY <5>1, <4>2, <3>3, <2>1, Zenon
      <4> QED
        BY <4>1, <4>2
    <3> QED
      BY <3>1, <3>4, <3>5, Zenon DEF p
  <2> QED
    BY <2>4, <2>5
<1>13. WaitFieldsExact(l)
  <2>1. WaitFieldsExact(j)
    BY DEF KernelInv
  <2> SUFFICES ASSUME NEW u \in Tid
               PROVE  /\ l.state[u] = "unborn" <=> u > l.n
                      /\ l.state[u] # "waiting" =>
                           l.kind[u] = "none" /\ l.addr[u] = NoAddr /\ l.dl[u] = NoDeadline
                      /\ l.state[u] = "waiting" =>
                           l.kind[u] # "none" /\ (l.kind[u] = "futex" <=> l.addr[u] # NoAddr)
    BY DEF WaitFieldsExact
  <2>2. CASE u = t
    BY SMTT(30), <2>1, <2>2, <1>1, <1>9, <1>11 DEF WaitFieldsExact, TimedKinds
  <2>3. CASE u # t
    BY <2>1, <2>3, <1>9, <1>10 DEF WaitFieldsExact
  <2> QED
    BY <2>2, <2>3
<1>14. CountersExact(l)
  <2> SUFFICES ASSUME NEW c \in TimedKinds
               PROVE  l.timed[c] = Cardinality(TimedOfKind(l, c))
    BY DEF CountersExact
  <2>1. j.timed[c] = Cardinality(TimedOfKind(j, c)) /\ j.timed[c] \in Nat
    BY <1>1 DEF KernelInv, CountersExact, KernelType
  <2>2. t \notin TimedOfKind(j, c)
    BY DEF TimedOfKind, TimedWaiting, Waiting
  <2>3. CASE c = k /\ deadline # NoDeadline
    <3>1. TimedOfKind(l, c) = TimedOfKind(j, c) \cup {t}
      BY <2>3, <1>1, <1>10, <1>11 DEF TimedOfKind, TimedWaiting, Waiting
    <3>2. Cardinality(TimedOfKind(j, c) \cup {t}) = Cardinality(TimedOfKind(j, c)) + 1
      BY Zenon, <2>2, TimedFinite, FS_AddElement
    <3>3. l.timed[c] = j.timed[c] + 1
      BY <2>3, <1>1, <1>9 DEF KernelType
    <3> QED
      BY <3>1, <3>2, <3>3, <2>1
  <2>4. CASE ~(c = k /\ deadline # NoDeadline)
    <3>1. TimedOfKind(l, c) = TimedOfKind(j, c)
      BY <2>2, <2>4, <1>1, <1>10, <1>11 DEF TimedOfKind, TimedWaiting, Waiting
    <3>2. l.timed[c] = j.timed[c]
      BY <2>1, <2>4, <1>1, <1>9 DEF KernelType
    <3> QED
      BY <3>1, <3>2, <2>1
  <2> QED
    BY <2>3, <2>4
<1> QED
  BY <1>9, <1>12, <1>13, <1>14 DEF KernelInv, l

-----------------------------------------------------------------------------
\* The queues stay exact when nobody starts or stops waiting.
LEMMA QueuesFrame ==
  ASSUME NEW j, NEW l, QueuesExact(j), l.waiters = j.waiters, l.kind = j.kind,
         l.addr = j.addr,
         \A u \in Tid : l.state[u] = "waiting" <=> j.state[u] = "waiting"
  PROVE  QueuesExact(l)
<1> SUFFICES ASSUME NEW a \in Addrs
             PROVE  /\ \A u \in Tid : Occurs(u, j.waiters[a]) <=>
                          (l.state[u] = "waiting" /\ j.kind[u] = "futex" /\ j.addr[u] = a)
                    /\ Distinct(j.waiters[a])
  BY DEF QueuesExact, Distinct
<1>1. Distinct(j.waiters[a])
  BY DEF QueuesExact, Distinct
<1>2. ASSUME NEW u \in Tid
      PROVE  Occurs(u, j.waiters[a]) <=>
               (l.state[u] = "waiting" /\ j.kind[u] = "futex" /\ j.addr[u] = a)
  BY Zenon DEF QueuesExact
<1> QED
  BY <1>1, <1>2, Zenon

\* A context that does not wait may end, and the next one may be created.
LEMMA SetStateInv ==
  ASSUME NEW j, KernelInv(j), NEW t \in Tid, j.state[t] = "runnable",
         NEW s \in {"runnable", "exited"}
  PROVE  KernelInv([j EXCEPT !.state[t] = s])
<1> DEFINE l == [j EXCEPT !.state[t] = s]
<1>1. j \in KernelType /\ j.chaosStart <= j.chaosUntil
  BY DEF KernelInv
<1>2. /\ l \in KernelType
      /\ l.n = j.n /\ l.state = [j.state EXCEPT ![t] = s] /\ l.kind = j.kind
      /\ l.addr = j.addr /\ l.dl = j.dl /\ l.waiters = j.waiters
      /\ l.timed = j.timed /\ l.chaosStart <= l.chaosUntil
  BY Zenon, <1>1 DEF KernelType
<1> HIDE DEF l
<1>3. \A u \in Tid : l.state[u] = IF u = t THEN s ELSE j.state[u]
  BY <1>1, <1>2 DEF KernelType
<1>4. \A u \in Tid : l.state[u] = "waiting" <=> j.state[u] = "waiting"
  BY <1>3
<1>5. \A k \in TimedKinds : TimedOfKind(l, k) = TimedOfKind(j, k)
  BY <1>2, <1>4 DEF TimedOfKind, TimedWaiting, Waiting
<1>6. QueuesExact(l)
  BY Zenon, <1>2, <1>4, QueuesFrame DEF KernelInv
<1>7. WaitFieldsExact(l)
  BY <1>2, <1>3 DEF KernelInv, WaitFieldsExact
<1> QED
  BY <1>2, <1>5, <1>6, <1>7 DEF KernelInv, CountersExact, l

\* sysClone: a new context is runnable, and no wait field of it is set.
LEMMA CreateInv ==
  ASSUME NEW j, KernelInv(j), j.n < NThreads, NEW a \in Addrs \cup {NoAddr}
  PROVE  KernelInv([j EXCEPT !.n = j.n + 1, !.state[j.n + 1] = "runnable",
                             !.clear[j.n + 1] = a])
<1> DEFINE t == j.n + 1
           l == [j EXCEPT !.n = t, !.state[t] = "runnable", !.clear[t] = a]
<1>1. j \in KernelType /\ j.chaosStart <= j.chaosUntil
  BY DEF KernelInv
<1>2. t \in Tid /\ j.n \in Nat
  BY <1>1, NThreadsAssumption DEF KernelType, Tid
<1>3. j.state[t] = "unborn"
  BY <1>2 DEF KernelInv, WaitFieldsExact
<1> HIDE DEF t
<1>4. /\ l \in KernelType
      /\ l.n = t /\ l.state = [j.state EXCEPT ![t] = "runnable"] /\ l.kind = j.kind
      /\ l.addr = j.addr /\ l.dl = j.dl /\ l.waiters = j.waiters
      /\ l.timed = j.timed /\ l.chaosStart <= l.chaosUntil
  BY ZenonT(60), <1>1, <1>2 DEF KernelType
<1> HIDE DEF l
<1>5. \A u \in Tid : l.state[u] = IF u = t THEN "runnable" ELSE j.state[u]
  BY <1>1, <1>4 DEF KernelType
<1>6. \A u \in Tid : l.state[u] = "waiting" <=> j.state[u] = "waiting"
  BY <1>3, <1>5
<1>7. \A k \in TimedKinds : TimedOfKind(l, k) = TimedOfKind(j, k)
  BY <1>4, <1>6 DEF TimedOfKind, TimedWaiting, Waiting
<1>8. QueuesExact(l)
  BY Zenon, <1>4, <1>6, QueuesFrame DEF KernelInv
<1>9. WaitFieldsExact(l)
  <2>1. \A u \in Tid : (u > t) <=> (u > j.n /\ u # t)
    BY <1>2 DEF t, Tid
  <2> QED
    BY <2>1, <1>3, <1>4, <1>5 DEF KernelInv, WaitFieldsExact
<1> QED
  BY <1>4, <1>7, <1>8, <1>9 DEF KernelInv, CountersExact, l, t

-----------------------------------------------------------------------------
\* Loading a context, and what the blocking system calls leave behind: either
\* a runnable context is loaded or the blocked flag is set.
Ready(j) == KernelInv(j) /\ j.state[j.cur] = "runnable"

\* loadContext of an eligible context leaves a runnable current context.
LEMMA LoadContextReady ==
  ASSUME NEW j, KernelInv(j), NEW t \in Eligible(j)
  PROVE  Ready(LoadContext(j, t)) /\ Ready(LoadAndUnblock(j, t))
<1> DEFINE l == LoadContext(j, t)
<1>1. j \in KernelType /\ j.chaosStart <= j.chaosUntil
  BY DEF KernelInv
<1>2. t \in Tid /\ j.state[t] = "runnable"
  BY DEF Eligible, Runnable
<1>3. /\ l \in KernelType
      /\ l.n = j.n /\ l.state = j.state /\ l.kind = j.kind /\ l.addr = j.addr
      /\ l.dl = j.dl /\ l.waiters = j.waiters /\ l.timed = j.timed
      /\ l.cur = t /\ l.chaosStart <= l.chaosUntil
  BY Zenon, <1>1, <1>2 DEF KernelType, LoadContext
<1> HIDE DEF l
<1>4. KernelInv(l)
  BY <1>3, Frame
<1>5. Wakes(l, [l EXCEPT !.blocked = FALSE, !.until = NoDeadline])
  BY Zenon, <1>4, SetBlocked
<1> QED
  BY <1>2, <1>3, <1>4, <1>5 DEF Ready, Wakes, LoadAndUnblock, l

\* scheduleAfterCurrentBlocked either loads a runnable context or reports blocked.
LEMMA ScheduleInv ==
  ASSUME NEW j, KernelInv(j), NEW step \in Nat
  PROVE  LET r == ScheduleAfterCurrentBlocked(j, step)
         IN  KernelInv(r) /\ (~ r.blocked => Ready(r))
<1> DEFINE j1 == RefreshChaosWindow(j)
           adv == AdvanceVirtualClockWhenNoRunnableCandidate(j1, step)
           j2 == IF WaitDeadlines(j1) = {} THEN j1 ELSE RefreshChaosWindow(adv)
           until == IF WaitDeadlines(j2) = {} THEN NoDeadline
                    ELSE MinOf(WaitDeadlines(j2))
           r == ScheduleAfterCurrentBlocked(j, step)
<1>1. KernelInv(j1)
  BY RefreshChaosWindowWakes DEF Wakes
<1> HIDE DEF j1
<1>2. KernelInv(j2)
  BY <1>1, NoCandidateWakes, RefreshChaosWindowWakes DEF Wakes
<1> HIDE DEF adv, j2
<1>3. CASE OthersEligible(j1) # {}
  <2>1. NextRunnableByPolicyAfterCurrent(j1) \in Eligible(j1)
    BY <1>1, <1>3, NextEligible DEF KernelInv, OthersEligible
  <2>2. r = LoadAndUnblock(j1, NextRunnableByPolicyAfterCurrent(j1))
    BY <1>3 DEF ScheduleAfterCurrentBlocked, LoadNextOrBlock, j1
  <2> QED
    BY <1>1, <2>1, <2>2, LoadContextReady DEF Ready
<1>4. CASE OthersEligible(j1) = {} /\ WaitDeadlines(j1) # {} /\ Eligible(j2) # {}
  <2>1. FirstRunnableByPolicy(j2) \in Eligible(j2)
    BY <1>4, FirstEligible
  <2>2. r = LoadAndUnblock(j2, FirstRunnableByPolicy(j2))
    BY <1>4 DEF ScheduleAfterCurrentBlocked, LoadNextOrBlock, LoadFirstOrBlock, j1, j2, adv
  <2> QED
    BY <1>2, <2>1, <2>2, LoadContextReady DEF Ready
<1>5. CASE OthersEligible(j1) = {} /\ ~(WaitDeadlines(j1) # {} /\ Eligible(j2) # {})
  <2>1. r = [j2 EXCEPT !.blocked = TRUE, !.until = until]
    BY Zenon, <1>5 DEF ScheduleAfterCurrentBlocked, LoadNextOrBlock, LoadFirstOrBlock,
               BlockUntilDeadline, j1, j2, adv
  <2>2. until \in Nat \cup {NoDeadline}
    <3>1. WaitDeadlines(j2) \in SUBSET Nat
      BY <1>2, DeadlinesNat DEF KernelInv
    <3> QED
      BY <3>1, MinOfMember
  <2> HIDE DEF until
  <2>3. r.blocked
    BY <1>2, <2>1 DEF KernelInv, KernelType
  <2>4. KernelInv(r)
    <3>1. Wakes(j2, [j2 EXCEPT !.blocked = TRUE, !.until = until])
      BY Zenon, <1>2, <2>2, SetBlocked
    <3> QED
      BY SMTT(30), <3>1, <2>1 DEF Wakes
  <2> QED
    BY <2>3, <2>4
<1> QED
  BY <1>3, <1>4, <1>5

-----------------------------------------------------------------------------
(* The actions of Jea9Sched. *)

IInv ==
    /\ TypeOK
    /\ KernelInv(jos)
    /\ CurrentRunnable

-----------------------------------------------------------------------------
\* What a handler does, seen from the run loop.
LEMMA ContinueInv ==
  ASSUME IInv, run = "running", NEW j, Ready(j), Continue(j)
  PROVE  IInv'
BY DEF IInv, TypeOK, CurrentRunnable, Continue, Ready, KernelInv

\* Ending the run keeps the invariant.
LEMMA StopInv ==
  ASSUME IInv, NEW j, KernelInv(j), NEW outcome \in {"blocked", "exited"},
         NEW reason \in {"none", "main", "group", "last", "blocked"},
         Stop(j, outcome, reason)
  PROVE  IInv'
BY DEF IInv, TypeOK, CurrentRunnable, Stop, KernelInv

\* Wake-ups leave the current context runnable.
LEMMA WakesReady ==
  ASSUME NEW j, NEW l, Ready(j), Wakes(j, l)
  PROVE  Ready(l)
<1>1. j.cur \in Tid
  BY DEF Ready, KernelInv, KernelType
<1> QED
  BY <1>1 DEF Ready, Wakes

\* Waking epoll waiters only wakes: they are in no futex queue.
LEMMA EpollWakes ==
  ASSUME NEW j, KernelInv(j), NEW W \in SUBSET EpollWaiting(j)
  PROVE  Wakes(j, MarkRunnable(j, W, "0"))
<1>1. j \in KernelType /\ j.waiters \in [Addrs -> Seq(Tid)]
  BY DEF KernelInv, KernelType
<1>2. W \in SUBSET Waiting(j) /\ \A t \in W : j.kind[t] = "epoll"
  BY DEF EpollWaiting
<1>3. \A a \in Addrs :
        /\ Distinct(j.waiters[a])
        /\ \A t \in Tid : Occurs(t, j.waiters[a]) <=>
                          (Occurs(t, j.waiters[a]) /\ t \notin W)
  <2> TAKE a \in Addrs
  <2>1. Distinct(j.waiters[a])
    BY <1>1 DEF KernelInv, QueuesExact, Distinct
  <2>2. ASSUME NEW t \in Tid, Occurs(t, j.waiters[a]) PROVE t \notin W
    <3>1. j.kind[t] = "futex"
      BY <1>1, <2>2, Zenon DEF KernelInv, QueuesExact
    <3> QED
      BY <3>1, <1>2
  <2> QED
    BY <2>1, <2>2, Zenon
<1>4. [j EXCEPT !.waiters = j.waiters] = j
  BY <1>1 DEF KernelType
<1>5. Wakes(j, MarkRunnable([j EXCEPT !.waiters = j.waiters], W, "0"))
  BY Zenon, <1>1, <1>2, <1>3, WakeUp
<1> QED
  BY <1>4, <1>5

\* The end of a slice only wakes.
LEMMA EndSliceWakes ==
  ASSUME NEW j, KernelInv(j), NEW tick \in Nat, NEW W \in SUBSET EpollWaiting(j)
  PROVE  Wakes(j, EndSlice(j, tick, W))
<1> DEFINE a == [j EXCEPT !.now = j.now + tick]
           b == RefreshEpollReadiness(a, W)
           c == RefreshBlocked(b)
<1>1. j.now + tick \in Nat /\ j \in KernelType
  BY DEF KernelInv, KernelType
<1>2. Wakes(j, a)
  BY <1>1, SetNow
<1>3. a.state = j.state /\ a.kind = j.kind
  BY <1>1 DEF KernelType
<1> HIDE DEF a
<1>4. W \in SUBSET EpollWaiting(a)
  BY <1>3 DEF EpollWaiting, Waiting
<1>5. Wakes(a, b)
  BY <1>2, <1>4, EpollWakes DEF Wakes, RefreshEpollReadiness
<1> HIDE DEF b
<1>6. Wakes(b, c)
  BY <1>5, RefreshBlockedWakes DEF Wakes
<1>7. EndSlice(j, tick, W) = c
  BY DEF EndSlice, a, b
<1> HIDE DEF c
<1> QED
  BY <1>2, <1>5, <1>6, <1>7, WakesTransitive

\* The run loop, given what scheduleAfterCurrentBlocked left behind.
LEMMA AfterHandleInv ==
  ASSUME IInv, run = "running", NEW j, KernelInv(j), ~ j.blocked => Ready(j),
         NEW tick \in Nat, NEW W, AfterHandle(j, tick, W)
  PROVE  IInv'
<1>1. CASE ~ j.blocked /\ Continue(j)
  BY <1>1, ContinueInv
<1>2. CASE RunAfterBlocked(j, tick, W)
  <2> DEFINE b == EndSlice(j, tick, W)
             c == RefreshChaosWindow(b)
  <2>1. KernelInv(b)
    BY <1>2, EndSliceWakes DEF Wakes, RunAfterBlocked
  <2> HIDE DEF b
  <2>2. KernelInv(c)
    BY <2>1, RefreshChaosWindowWakes DEF Wakes
  <2> HIDE DEF c
  <2>3. \/ Eligible(c) # {} /\ Continue(LoadAndUnblock(c, FirstRunnableByPolicy(c)))
        \/ Stop(c, "blocked", "none")
        \/ Stop(c, "exited", "blocked")
    BY <1>2 DEF RunAfterBlocked, ResumeOrStop, b, c
  <2>4. ASSUME Eligible(c) # {} PROVE Ready(LoadAndUnblock(c, FirstRunnableByPolicy(c)))
    BY <2>2, <2>4, FirstEligible, LoadContextReady
  <2> QED
    BY <2>2, <2>3, <2>4, ContinueInv, StopInv
<1>3. CASE RunJITAfterBlocked(j)
  BY <1>3, StopInv DEF RunJITAfterBlocked
<1> QED
  BY <1>1, <1>2, <1>3 DEF AfterHandle

\* The tail every blocking system call shares.
LEMMA BlockInv ==
  ASSUME IInv, run = "running", NEW j, Ready(j), NEW k \in TimedKinds,
         NEW a \in Addrs \cup {NoAddr}, (k = "futex") <=> (a # NoAddr),
         NEW deadline \in Nat \cup {NoDeadline}, NEW step \in Nat, NEW tick \in Nat,
         NEW W, Block(j, k, a, deadline, step, tick, W)
  PROVE  IInv'
<1>1. KernelInv(EnterWait(j, k, a, deadline))
  BY EnterWaitInv DEF Ready
<1>2. LET r == ScheduleAfterCurrentBlocked(EnterWait(j, k, a, deadline), step)
      IN  KernelInv(r) /\ (~ r.blocked => Ready(r))
  BY <1>1, ScheduleInv
<1> QED
  BY <1>2, AfterHandleInv DEF Block

\* Loading the next context in the policy's order.
LEMMA LoadNextInv ==
  ASSUME NEW j, KernelInv(j), OthersEligible(j) # {}
  PROVE  Ready(LoadNext(j))
<1>1. NextRunnableByPolicyAfterCurrent(j) \in Eligible(j)
  BY NextEligible DEF KernelInv, OthersEligible
<1> QED
  BY <1>1, LoadContextReady DEF LoadNext

\* It leaves a runnable current context even when there is no other.
LEMMA LoadNextReady ==
  ASSUME NEW j, Ready(j)
  PROVE  Ready(LoadNext(j))
<1>1. CASE OthersEligible(j) = {}
  BY <1>1 DEF LoadNext
<1>2. CASE OthersEligible(j) # {}
  BY <1>2, LoadNextInv DEF Ready
<1> QED
  BY <1>1, <1>2

-----------------------------------------------------------------------------
\* The system calls.
LEMMA TimedWaitInv ==
  ASSUME IInv, run = "running", NEW kind \in TimedKinds,
         NEW a \in Addrs \cup {NoAddr}, (kind = "futex") <=> (a # NoAddr),
         NEW timeout \in Nat, NEW step \in Nat, NEW tick \in Nat, NEW W,
         TimedWait(kind, a, timeout, step, tick, W)
  PROVE  IInv'
<1> DEFINE j1 == RefreshChaosWindow(jos)
           deadline == jos.now + timeout
           j2 == IF OthersEligible(j1) # {} THEN j1
                 ELSE AdvanceVirtualClockTowardDeadline(j1, deadline, step)
<1>1. Ready(jos) /\ deadline \in Nat
  BY DEF IInv, CurrentRunnable, Ready, KernelInv, KernelType
<1> HIDE DEF deadline
<1>2. Ready(j1)
  BY <1>1, RefreshChaosWindowWakes, WakesReady DEF Ready
<1> HIDE DEF j1
<1>3. Ready(j2)
  BY Zenon, <1>1, <1>2, AdvanceTowardWakes, WakesReady DEF Ready
<1> HIDE DEF j2
<1>4. Continue(j2) \/ Block(j2, kind, a, deadline, step, tick, W)
  BY DEF TimedWait, AdvanceIfAlone, BlockUnlessOver, j1, j2, deadline
<1>5. CASE Continue(j2)
  BY <1>3, <1>5, ContinueInv
<1>6. CASE Block(j2, kind, a, deadline, step, tick, W)
  BY <1>1, <1>3, <1>6, BlockInv
<1> QED
  BY <1>4, <1>5, <1>6

\* A wait without a timeout keeps the invariant.
LEMMA UntimedWaitInv ==
  ASSUME IInv, run = "running", NEW kind \in TimedKinds,
         NEW a \in Addrs \cup {NoAddr}, (kind = "futex") <=> (a # NoAddr),
         NEW step \in Nat, NEW tick \in Nat, NEW W,
         UntimedWait(kind, a, step, tick, W)
  PROVE  IInv'
<1>1. Ready(jos)
  BY DEF IInv, CurrentRunnable, Ready
<1> QED
  BY Zenon, <1>1, BlockInv DEF UntimedWait

\* sysNanosleep keeps the invariant.
LEMMA SysNanosleepInv ==
  ASSUME IInv, run = "running", NEW d \in Nat, NEW step \in Nat, NEW tick \in Nat, NEW W,
         SysNanosleep(d, step, tick, W)
  PROVE  IInv'
<1>1. Ready(jos) /\ jos.now + d \in Nat
  BY DEF IInv, CurrentRunnable, Ready, KernelInv, KernelType
<1>2. Block(jos, "nanosleep", NoAddr, jos.now + d, step, tick, W)
  BY DEF SysNanosleep
<1>3. "nanosleep" \in TimedKinds
  BY DEF TimedKinds
<1> QED
  BY <1>1, <1>2, <1>3, BlockInv

\* wakeEpollWaitersForFD keeps the invariant.
LEMMA WakeEpollInv ==
  ASSUME IInv, run = "running", NEW W, WakeEpollWaitersForFD(W)
  PROVE  IInv'
<1>1. Ready(jos) /\ W \in SUBSET EpollWaiting(jos)
  BY DEF IInv, CurrentRunnable, Ready, WakeEpollWaitersForFD
<1>2. Ready(MarkRunnable(jos, W, "0"))
  BY <1>1, EpollWakes, WakesReady DEF Ready
<1> QED
  BY <1>2, ContinueInv DEF WakeEpollWaitersForFD

\* A signal that ends a wait keeps the invariant: the context leaves its queue
\* and its counter as a woken one does.
LEMMA SysTgkillInv ==
  ASSUME IInv, run = "running", NEW t \in Tid, SysTgkill(t)
  PROVE  IInv'
<1> DEFINE Q == [a \in Addrs |-> IF jos.kind[t] = "futex"
                                 THEN Without(jos.waiters[a], {t}) ELSE jos.waiters[a]]
           l == MarkRunnable([jos EXCEPT !.waiters = Q], {t}, jos.ret[t])
<1>1. Ready(jos) /\ KernelInv(jos) /\ jos \in KernelType
  BY DEF IInv, CurrentRunnable, Ready, KernelInv
<1>2. {t} \in SUBSET Waiting(jos) /\ jos.state[t] = "waiting"
      /\ jos.ret[t] \in {"none", "0", "ETIMEDOUT"}
      /\ jos.waiters \in [Addrs -> Seq(Tid)]
  BY <1>1 DEF SysTgkill, Waiting, KernelType
<1>3. ASSUME NEW a \in Addrs
      PROVE  /\ Q[a] \in Seq(Tid)
             /\ Distinct(Q[a])
             /\ \A u \in Tid : Occurs(u, Q[a]) <=>
                                (Occurs(u, jos.waiters[a]) /\ u \notin {t})
  <2>1. jos.waiters[a] \in Seq(Tid) /\ Distinct(jos.waiters[a])
    BY <1>1, <1>2 DEF KernelInv, QueuesExact, Distinct
  <2>2. CASE jos.kind[t] = "futex"
    BY <2>1, <2>2, WithoutProperties
  <2>3. CASE jos.kind[t] # "futex"
    <3>1. ~ Occurs(t, jos.waiters[a])
      BY <1>1, <2>3, Zenon DEF KernelInv, QueuesExact
    <3>2. Q[a] = jos.waiters[a]
      BY <2>3
    <3> HIDE DEF Q
    <3> QED
      BY <2>1, <3>1, <3>2, Zenon
  <2> QED
    BY Zenon, <2>2, <2>3
<1>4. Q \in [Addrs -> Seq(Tid)]
  BY Zenon, <1>3
<1>5. Wakes(jos, l)
  <2> HIDE DEF Q
  <2> QED
    BY Zenon, <1>1, <1>2, <1>3, <1>4, WakeUp
<1>6. InterruptWait(jos, t) = l
  <2> DEFINE jq == [jos EXCEPT !.waiters = Q]
             jr == [jq EXCEPT !.state[t] = "runnable"]
  <2>1. (IF jos.kind[t] = "futex" THEN RemoveFutexWaiters(jos, {t}) ELSE jos) = jq
    <3>1. CASE jos.kind[t] = "futex"
      BY <3>1 DEF RemoveFutexWaiters
    <3>2. CASE jos.kind[t] # "futex"
      <4>1. Q = jos.waiters
        BY <1>2, <3>2
      <4> QED
        BY <1>1, <3>2, <4>1 DEF KernelType
    <3> QED
      BY <3>1, <3>2
  <2> HIDE DEF Q
  <2>2. /\ jq.state = jos.state /\ jq.ret = jos.ret
        /\ jos.state \in [Tid -> {"unborn", "runnable", "waiting", "exited"}]
        /\ jos.ret \in [Tid -> {"none", "0", "ETIMEDOUT"}]
        /\ jq = [jq EXCEPT !.ret = jos.ret]
    BY Zenon, <1>1 DEF KernelType
  <2>3. {u \in {t} : jq.state[u] # "exited"} = {t}
    BY <1>2, <2>2
  <2>4. /\ [u \in Tid |-> IF u \in {t} THEN "runnable" ELSE jq.state[u]]
             = [jos.state EXCEPT ![t] = "runnable"]
        /\ [u \in Tid |-> IF u \in {t} THEN jos.ret[t] ELSE jq.ret[u]] = jos.ret
    BY <2>2
  <2>5. [jq EXCEPT !.state = [jos.state EXCEPT ![t] = "runnable"], !.ret = jos.ret] = jr
    BY Zenon, <1>1, <2>2 DEF KernelType
  <2>6. l = ClearContextWaitFields(jr, {t})
    <3>1. l = MarkRunnable(jq, {t}, jos.ret[t])
      OBVIOUS
    <3>2. MarkRunnable(jq, {t}, jos.ret[t]) =
            ClearContextWaitFields(
              [jq EXCEPT
                !.state = [u \in Tid |-> IF u \in {t} THEN "runnable" ELSE jq.state[u]],
                !.ret   = [u \in Tid |-> IF u \in {t} THEN jos.ret[t] ELSE jq.ret[u]]],
              {t})
      <4> HIDE DEF jq
      <4> QED
        BY <2>3, Zenon DEF MarkRunnable
    <3> HIDE DEF l, jq, jr
    <3> QED
      BY <3>1, <3>2, <2>4, <2>5, Zenon
  <2>7. InterruptWait(jos, t) = [ClearContextWaitFields(jq, {t}) EXCEPT !.state[t] = "runnable"]
    BY <2>1, Zenon DEF InterruptWait, CancelContextWait
  <2>8. jq \in KernelType
    BY Zenon, <1>1, <1>4 DEF KernelType
  <2> HIDE DEF l
  <2>9. [ClearContextWaitFields(jq, {t}) EXCEPT !.state[t] = "runnable"]
          = ClearContextWaitFields(jr, {t})
    <3> DEFINE left(k) == jq.timed[k] -
                 Cardinality({u \in {t} : jq.dl[u] # NoDeadline /\ jq.kind[u] = k})
               T == [k \in TimedKinds |-> IF left(k) < 0 THEN 0 ELSE left(k)]
               K == [u \in Tid |-> IF u \in {t} THEN "none" ELSE jq.kind[u]]
               A == [u \in Tid |-> IF u \in {t} THEN NoAddr ELSE jq.addr[u]]
               D == [u \in Tid |-> IF u \in {t} THEN NoDeadline ELSE jq.dl[u]]
    <3> HIDE DEF jq
    <3>1. ClearContextWaitFields(jq, {t}) =
            [jq EXCEPT !.timed = T, !.kind = K, !.addr = A, !.dl = D]
      BY Zenon DEF ClearContextWaitFields
    <3>2. jr.timed = jq.timed /\ jr.kind = jq.kind /\ jr.addr = jq.addr /\ jr.dl = jq.dl
      BY <2>8 DEF KernelType
    <3>3. ClearContextWaitFields(jr, {t}) =
            [jr EXCEPT !.timed = T, !.kind = K, !.addr = A, !.dl = D]
      <4> HIDE DEF jr
      <4>1. /\ T = [k \in TimedKinds |->
                     LET m == jr.timed[k] -
                              Cardinality({u \in {t} : jr.dl[u] # NoDeadline /\ jr.kind[u] = k})
                     IN  IF m < 0 THEN 0 ELSE m]
            /\ K = [u \in Tid |-> IF u \in {t} THEN "none" ELSE jr.kind[u]]
            /\ A = [u \in Tid |-> IF u \in {t} THEN NoAddr ELSE jr.addr[u]]
            /\ D = [u \in Tid |-> IF u \in {t} THEN NoDeadline ELSE jr.dl[u]]
        BY <3>2
      <4> HIDE DEF T, K, A, D
      <4> QED
        BY <4>1, Zenon DEF ClearContextWaitFields
    <3> HIDE DEF T, K, A, D
    <3> QED
      BY Zenon, <2>8, <3>1, <3>3 DEF KernelType
  <2> QED
    BY <2>6, <2>7, <2>9
<1> HIDE DEF l
<1>7. Ready(l) /\ Continue(l)
  BY <1>1, <1>5, <1>6, WakesReady DEF SysTgkill
<1> QED
  BY <1>7, ContinueInv

\* sched_yield keeps the invariant.
LEMMA SysSchedYieldInv ==
  ASSUME IInv, run = "running", NEW step \in Nat, SysSchedYield(step)
  PROVE  IInv'
<1> DEFINE a == AdvanceVirtualClockForSchedulerEvent(jos, step)
           b == RefreshChaosWindow(a)
<1>1. Ready(jos)
  BY DEF IInv, CurrentRunnable, Ready
<1>2. Ready(a)
  BY <1>1, SchedulerEventWakes, WakesReady DEF Ready
<1> HIDE DEF a
<1>3. Ready(b)
  BY <1>2, RefreshChaosWindowWakes, WakesReady DEF Ready
<1> HIDE DEF b
<1>4. Continue(LoadNext(b))
  BY DEF SysSchedYield, a, b
<1> QED
  BY <1>3, <1>4, LoadNextReady, ContinueInv

\* clone keeps the invariant.
LEMMA SysCloneInv ==
  ASSUME IInv, run = "running", NEW a \in Addrs \cup {NoAddr}, SysClone(a)
  PROVE  IInv'
<1> DEFINE l == [jos EXCEPT !.n = jos.n + 1, !.state[jos.n + 1] = "runnable",
                            !.clear[jos.n + 1] = a]
<1>1. KernelInv(jos) /\ jos.state[jos.cur] = "runnable" /\ jos \in KernelType
  BY DEF IInv, CurrentRunnable, KernelInv
<1>2. jos.n < NThreads /\ Continue(l)
  BY SMTT(30) DEF SysClone
<1>3. KernelInv(l)
  BY Zenon, <1>1, <1>2, CreateInv
<1>4. l.state[l.cur] = "runnable"
  BY <1>1 DEF KernelType
<1> HIDE DEF l
<1> QED
  BY <1>2, <1>3, <1>4, ContinueInv DEF Ready

\* set_tid_address keeps the invariant.
LEMMA SysSetTidAddressInv ==
  ASSUME IInv, run = "running", NEW a \in Addrs, SysSetTidAddress(a)
  PROVE  IInv'
<1> DEFINE l == [jos EXCEPT !.clear[jos.cur] = a]
<1>1. /\ KernelInv(jos) /\ jos.state[jos.cur] = "runnable" /\ jos \in KernelType
      /\ jos.chaosStart <= jos.chaosUntil
  BY DEF IInv, CurrentRunnable, KernelInv
<1>2. /\ l \in KernelType
      /\ l.n = jos.n /\ l.state = jos.state /\ l.kind = jos.kind /\ l.addr = jos.addr
      /\ l.dl = jos.dl /\ l.waiters = jos.waiters /\ l.timed = jos.timed
      /\ l.cur = jos.cur /\ l.chaosStart <= l.chaosUntil
  BY Zenon, <1>1 DEF KernelType
<1>3. Continue(l)
  BY DEF SysSetTidAddress
<1> HIDE DEF l
<1>4. KernelInv(l)
  BY <1>1, <1>2, Frame
<1> QED
  BY <1>1, <1>2, <1>3, <1>4, ContinueInv DEF Ready

\* exitCurrentThread, with the wake-up of clearChildTID, keeps the kernel invariant.
LEMMA ExitCurrentThreadInv ==
  ASSUME NEW j, Ready(j)
  PROVE  KernelInv(ExitCurrentThread(j))
<1> DEFINE t == j.cur
           j1 == [j EXCEPT !.state[t] = "exited"]
<1>1. KernelInv(j) /\ j \in KernelType /\ t \in Tid /\ j.state[t] = "runnable"
  BY DEF Ready, KernelInv, KernelType
<1>2. j.kind[t] = "none" /\ j.addr[t] = NoAddr /\ j.dl[t] = NoDeadline
  BY <1>1 DEF KernelInv, WaitFieldsExact
<1>3. CancelContextWait(j, t) = j
  BY <1>1, <1>2, ClearIdle DEF CancelContextWait
<1>4. KernelInv(j1)
  BY Zenon, <1>1, SetStateInv
<1>5. j.clear[t] \in Addrs \cup {NoAddr}
  BY <1>1 DEF KernelType
<1>6. \/ ExitCurrentThread(j) = j1
      \/ j.clear[t] # NoAddr /\ ExitCurrentThread(j) = WakeFutex(j1, j.clear[t], 1)
  BY <1>3 DEF ExitCurrentThread
<1> HIDE DEF j1
<1>7. j.clear[t] # NoAddr => KernelInv(WakeFutex(j1, j.clear[t], 1))
  BY <1>4, <1>5, WakeFutexWakes DEF Wakes
<1> QED
  BY <1>4, <1>6, <1>7

\* exit and exit_group keep the invariant.
LEMMA SysExitInv ==
  ASSUME IInv, run = "running", SysExit
  PROVE  IInv'
<1> DEFINE a == ExitCurrentThread(jos)
           b == RefreshChaosWindow(a)
<1>1. Ready(jos)
  BY DEF IInv, CurrentRunnable, Ready
<1>2. KernelInv(a)
  BY <1>1, ExitCurrentThreadInv
<1> HIDE DEF a
<1>3. KernelInv(b)
  BY <1>2, RefreshChaosWindowWakes DEF Wakes
<1> HIDE DEF b
<1>4. \/ Stop(jos, "exited", "main")
      \/ Stop(b, "exited", "last")
      \/ OthersEligible(b) # {} /\ Continue(LoadNext(b))
  BY DEF SysExit, LoadNextOrEnd, a, b
<1>5. OthersEligible(b) # {} => Ready(LoadNext(b))
  BY <1>3, LoadNextInv
<1>6. KernelInv(jos)
  BY <1>1 DEF Ready
<1> QED
  BY <1>3, <1>4, <1>5, <1>6, ContinueInv, StopInv

-----------------------------------------------------------------------------
\* The run loop.
LEMMA EndSliceReady ==
  ASSUME IInv, run = "running", NEW tick \in Nat, NEW W \in SUBSET EpollWaiting(jos)
  PROVE  Ready(StayRunnable(EndSlice(jos, tick, W)))
<1> DEFINE j0 == EndSlice(jos, tick, W)
<1>1. Ready(jos)
  BY DEF IInv, CurrentRunnable, Ready
<1>2. Ready(j0)
  BY <1>1, EndSliceWakes, WakesReady DEF Ready
<1> HIDE DEF j0
<1>3. StayRunnable(j0) = j0
  BY <1>2 DEF Ready, KernelInv, KernelType, StayRunnable
<1> QED
  BY <1>2, <1>3 DEF j0

\* Drawing new priorities leaves the current context runnable.
LEMMA ReshuffleReady ==
  ASSUME NEW j, Ready(j), NEW low
  PROVE  Ready(Reshuffle(j, low))
<1> DEFINE l == Reshuffle(j, low)
<1>1. j \in KernelType /\ KernelInv(j) /\ j.chaosStart <= j.chaosUntil
  BY DEF Ready, KernelInv
<1>2. /\ l \in KernelType
      /\ l.n = j.n /\ l.state = j.state /\ l.kind = j.kind /\ l.addr = j.addr
      /\ l.dl = j.dl /\ l.waiters = j.waiters /\ l.timed = j.timed
      /\ l.cur = j.cur /\ l.chaosStart <= l.chaosUntil
  BY Zenon, <1>1 DEF KernelType, Reshuffle
<1> HIDE DEF l
<1>3. KernelInv(l)
  BY <1>1, <1>2, Frame
<1> QED
  BY <1>2, <1>3 DEF Ready, l

\* expireSchedulerQuantum keeps the invariant.
LEMMA ExpireSchedulerQuantumInv ==
  ASSUME IInv, run = "running", NEW reshuffled \in BOOLEAN, NEW low,
         NEW len \in Nat, NEW step \in Nat, NEW tick \in Nat, NEW W,
         ExpireSchedulerQuantum(reshuffled, low, len, step, tick, W)
  PROVE  IInv'
<1> DEFINE j0 == EndSlice(jos, tick, W)
           j1 == StayRunnable(j0)
           j2 == ReshuffleIf(reshuffled, j1, low)
           w  == StartChaosWindow(j2, len)
           j3 == RefreshChaosWindow(w)
           v  == AdvanceVirtualClockWhenNoRunnableCandidate(j3, step)
           j4 == RefreshChaosWindow(v)
<1>1. Ready(j1)
  BY EndSliceReady DEF ExpireSchedulerQuantum
<1> HIDE DEF j1
<1>2. Ready(j2)
  BY <1>1, ReshuffleReady DEF ReshuffleIf
<1> HIDE DEF j2
<1>3. Ready(w)
  BY <1>2, StartChaosWindowWakes, WakesReady DEF Ready
<1> HIDE DEF w
<1>4. Ready(j3)
  BY <1>3, RefreshChaosWindowWakes, WakesReady DEF Ready
<1> HIDE DEF j3
<1>5. Ready(v)
  BY <1>4, NoCandidateWakes, WakesReady DEF Ready
<1> HIDE DEF v
<1>6. Ready(j4)
  BY <1>5, RefreshChaosWindowWakes, WakesReady DEF Ready
<1> HIDE DEF j4
<1>7. LoadNextOrAdvance(j3, step) \in {j4, LoadNext(j3), LoadNext(j4)}
  BY DEF LoadNextOrAdvance, LoadNextIfMoved, v, j4
<1>8. Continue(LoadNextOrAdvance(j3, step))
  BY DEF ExpireSchedulerQuantum, j1, j2, w, j3
<1>9. Ready(LoadNextOrAdvance(j3, step))
  BY <1>4, <1>6, <1>7, LoadNextReady
<1> QED
  BY <1>8, <1>9, ContinueInv

\* A slice that ends inside the run loop keeps the invariant.
LEMMA ExpireBudgetInv ==
  ASSUME IInv, run = "running", NEW tick \in Nat, NEW W, ExpireBudget(tick, W)
  PROVE  IInv'
<1> DEFINE j0 == EndSlice(jos, tick, W)
           j1 == StayRunnable(j0)
<1>1. Ready(j1)
  BY EndSliceReady DEF ExpireBudget
<1>2. Continue(j1)
  BY DEF ExpireBudget
<1> HIDE DEF j1
<1> QED
  BY <1>1, <1>2, ContinueInv

-----------------------------------------------------------------------------
\* The initial state satisfies the inductive invariant.
LEMMA InitIInv == Init => IInv
<1> SUFFICES ASSUME Init PROVE IInv
  OBVIOUS
<1> DEFINE j == KernelInit(StartNS)
<1>1. Pid \in Tid /\ 1 \in Tid
  BY NThreadsAssumption DEF Pid, Tid
<1>2. \A a \in Addrs : << >> \in Seq(Tid)
  OBVIOUS
<1>3. j \in KernelType
  BY <1>1, <1>2, SchedAssumption
     DEF KernelInit, KernelType, NoDeadline, TimedKinds
<1>4. \A t \in Tid : /\ j.state[t] = IF t = Pid THEN "runnable" ELSE "unborn"
                     /\ j.kind[t] = "none"
                     /\ j.addr[t] = NoAddr /\ j.dl[t] = NoDeadline
  BY DEF KernelInit
<1>5. j.n = 1 /\ j.cur = Pid /\ j.chaosStart = 0 /\ j.chaosUntil = 0
  BY DEF KernelInit
<1>6. \A a \in Addrs : j.waiters[a] = << >>
  BY DEF KernelInit
<1>7. \A k \in TimedKinds : j.timed[k] = 0
  BY DEF KernelInit
<1> HIDE DEF j
<1>8. \A a \in Addrs, t \in Tid : ~ Occurs(t, j.waiters[a])
  BY <1>6 DEF Occurs
<1>9. QueuesExact(j)
  <2>1. \A t \in Tid : j.state[t] # "waiting"
    BY <1>4
  <2> SUFFICES ASSUME NEW a \in Addrs
               PROVE  /\ \A t \in Tid : Occurs(t, j.waiters[a]) <=>
                            (j.state[t] = "waiting" /\ j.kind[t] = "futex" /\ j.addr[t] = a)
                      /\ \A i, k \in DOMAIN j.waiters[a] :
                            j.waiters[a][i] = j.waiters[a][k] => i = k
    BY Zenon DEF QueuesExact
  <2>2. \A t \in Tid : Occurs(t, j.waiters[a]) <=>
          (j.state[t] = "waiting" /\ j.kind[t] = "futex" /\ j.addr[t] = a)
    BY <2>1, <1>8, Zenon
  <2>3. DOMAIN j.waiters[a] = {}
    BY <1>6
  <2> QED
    BY <2>2, <2>3, Zenon
<1>10. CountersExact(j)
  <2>1. \A k \in TimedKinds : TimedOfKind(j, k) = {}
    BY <1>4 DEF TimedOfKind, TimedWaiting, Waiting
  <2> QED
    BY <2>1, <1>7, FS_EmptySet DEF CountersExact
<1>11. WaitFieldsExact(j)
  BY <1>4, <1>5 DEF WaitFieldsExact, Tid, Pid
<1>12. jos = j /\ run = "running" /\ why = "none"
  BY DEF Init, j
<1>13. j.state[j.cur] = "runnable"
  BY <1>1, <1>4, <1>5
<1> QED
  BY <1>3, <1>5, <1>9, <1>10, <1>11, <1>12, <1>13
     DEF IInv, TypeOK, CurrentRunnable, KernelInv

\* Every blocking call keeps the invariant: one step per call.
LEMMA BlockingCallInv ==
  ASSUME IInv, run = "running", NEW step \in Nat, NEW tick \in Nat, NEW W,
         BlockingCall(step, tick, W)
  PROVE  IInv'
<1>1. Timeouts \subseteq Nat /\ TimedKinds = {"futex", "epoll", "nanosleep"}
  BY SchedAssumption DEF TimedKinds
<1>2. ASSUME NEW a \in Addrs, SysFutexWait(a, step, tick, W) PROVE IInv'
  BY <1>1, <1>2, NoAddrAssumption, TimedWaitInv, UntimedWaitInv DEF SysFutexWait
<1>3. ASSUME SysEpollPwait(step, tick, W) PROVE IInv'
  BY <1>1, <1>3, TimedWaitInv, UntimedWaitInv DEF SysEpollPwait
<1>4. ASSUME SysPselect6(step, tick, W) PROVE IInv'
  BY <1>1, <1>4, TimedWaitInv DEF SysPselect6
<1>5. ASSUME NEW d \in Timeouts, SysNanosleep(d, step, tick, W) PROVE IInv'
  BY <1>1, <1>5, SysNanosleepInv
<1> QED
  BY <1>2, <1>3, <1>4, <1>5 DEF BlockingCall

\* So does every other call.
LEMMA OtherCallInv ==
  ASSUME IInv, run = "running", NEW step \in Nat, OtherCall(step)
  PROVE  IInv'
<1>1. ASSUME NEW a \in Addrs, NEW limit \in 1..2, SysFutexWake(a, limit) PROVE IInv'
  <2>1. Ready(jos) /\ limit \in Nat
    BY DEF IInv, CurrentRunnable, Ready
  <2>2. Ready(WakeFutex(jos, a, limit))
    BY <2>1, WakeFutexWakes, WakesReady DEF Ready
  <2> QED
    BY <1>1, <2>2, ContinueInv DEF SysFutexWake
<1>2. ASSUME SysExitGroup PROVE IInv'
  BY <1>2, StopInv DEF SysExitGroup, IInv
<1> QED
  BY <1>1, <1>2, WakeEpollInv, SysTgkillInv, SysSchedYieldInv,
     SysSetTidAddressInv, SysCloneInv, SysExitInv DEF OtherCall

\* Every step keeps the inductive invariant.
LEMMA NextIInv == IInv /\ [Next]_vars => IInv'
<1> SUFFICES ASSUME IInv, [Next]_vars PROVE IInv'
  OBVIOUS
<1>1. CASE UNCHANGED vars
  BY <1>1 DEF vars, IInv, TypeOK, CurrentRunnable
<1>2. CASE Next
  <2>1. PICK step \in Steps :
          \/ OtherCall(step)
          \/ \E tick \in Ticks, W \in Looks :
               BlockingCall(step, tick, W) \/ Quantum(step, tick, W) \/ ExpireBudget(tick, W)
    BY <1>2 DEF Next
  <2>2. run = "running" /\ step \in Nat /\ Ticks \subseteq Nat /\ ChaosLens \subseteq Nat
    BY <1>2, SchedAssumption DEF Next
  <2>3. CASE OtherCall(step)
    BY <2>2, <2>3, OtherCallInv
  <2>4. ASSUME NEW tick \in Ticks, NEW W, BlockingCall(step, tick, W) PROVE IInv'
    BY <2>2, <2>4, BlockingCallInv
  <2>5. ASSUME NEW tick \in Ticks, NEW W, Quantum(step, tick, W) PROVE IInv'
    BY <2>2, <2>5, ExpireSchedulerQuantumInv DEF Quantum
  <2>6. ASSUME NEW tick \in Ticks, NEW W, ExpireBudget(tick, W) PROVE IInv'
    BY <2>2, <2>6, ExpireBudgetInv
  <2> QED
    BY <2>1, <2>3, <2>4, <2>5, <2>6
<1> QED
  BY <1>1, <1>2

\* The inductive invariant always holds.
LEMMA Inductive == Spec => []IInv
<1>1. Init => IInv
  BY InitIInv
<1>2. IInv /\ [Next]_vars => IInv'
  BY NextIInv
<1> QED
  BY <1>1, <1>2, PTL DEF Spec

\* The kernel state and the run loop's result keep their types in every run.
THEOREM TypeCorrect == Spec => []TypeOK
<1>1. IInv => TypeOK
  BY DEF IInv
<1> QED
  BY <1>1, Inductive, PTL

\* However waits, wakes, timeouts and exits interleave, the futex queues hold
\* exactly the contexts that wait, each once: no wake-up is lost to a stale
\* queue entry and no waiter is unreachable.
THEOREM FutexQueuesAlwaysExact == Spec => []FutexQueuesExact
<1>1. IInv => FutexQueuesExact
  BY DEF IInv, KernelInv, FutexQueuesExact
<1> QED
  BY <1>1, Inductive, PTL

\* The timed-waiter counters never drift, so the scans refreshBlocked skips
\* are always scans that would have found nothing.
THEOREM TimedCountersAlwaysExact == Spec => []TimedCountersExact
<1>1. IInv => TimedCountersExact
  BY DEF IInv, KernelInv, TimedCountersExact
<1> QED
  BY <1>1, Inductive, PTL

\* The run loop never executes a waiting or an exited thread, with either
\* engine and in every scheduler mode.
THEOREM AlwaysExecutesRunnable == Spec => []CurrentRunnable
<1>1. IInv => CurrentRunnable
  BY DEF IInv
<1> QED
  BY <1>1, Inductive, PTL
=============================================================================
