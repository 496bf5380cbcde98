---------------------------- MODULE Jea9TimeProofs ----------------------------
(***************************************************************************)
(* Time in the scheduler, for every number of threads, set of futex words, *)
(* clock policy, scheduler mode and engine: when a wait may end, in which  *)
(* order waiters are woken, and how long a starvation window may last.     *)
(***************************************************************************)
EXTENDS Jea9SchedProofs

Over(j, t, time) == j.dl[t] # NoDeadline /\ j.dl[t] <= time

\* ChaosWithinBudget of one kernel state; a window that is not open has no
\* length, or the next one to open would be charged for it.
WithinBudget(j) ==
    /\ ~ j.chaosOn => j.chaosStart = j.chaosUntil
    /\ (j.chaosSpent + (j.chaosUntil - j.chaosStart)) * ChaosDen <= j.now * ChaosNum

Unmoved(j, l, t) ==
    /\ l.state[t] = j.state[t] /\ l.kind[t] = j.kind[t]
    /\ l.dl[t] = j.dl[t] /\ l.ret[t] = j.ret[t]

\* What the clock and the looks of the run loop do: l is j with some waits
\* ended, each because it is over or because an epoll waiter has events.
Elapses(j, l) ==
    /\ j.now <= l.now
    /\ WithinBudget(j) => WithinBudget(l)
    /\ \A t \in Tid :
         \/ Unmoved(j, l, t)
         \/ /\ j.state[t] = "waiting" /\ l.state[t] = "runnable"
            /\ Over(j, t, l.now) \/ (j.kind[t] = "epoll" /\ l.ret[t] = "0")

\* No wait of j is over.
Prompt(j) == \A t \in TimedWaiting(j) : j.dl[t] > j.now

Steady(j, l) == Elapses(j, l) /\ (Prompt(j) => Prompt(l))

\* Nothing happening is a way for time to pass.
LEMMA ElapsesSelf ==
  ASSUME NEW j, KernelInv(j)
  PROVE  Steady(j, j)
BY DEF Steady, Elapses, Unmoved, KernelInv, KernelType

\* Steps that leave alone what time is about.
LEMMA FrameSteady ==
  ASSUME NEW j, KernelInv(j), NEW l, l.now = j.now, l.state = j.state,
         l.kind = j.kind, l.dl = j.dl, l.ret = j.ret, l.chaosOn = j.chaosOn,
         l.chaosSpent = j.chaosSpent, l.chaosStart = j.chaosStart,
         l.chaosUntil = j.chaosUntil
  PROVE  Steady(j, l)
<1>1. j.now <= l.now
  BY DEF KernelInv, KernelType
<1>2. WithinBudget(j) => WithinBudget(l)
  BY DEF WithinBudget
<1>3. \A t \in Tid : Unmoved(j, l, t)
  BY DEF Unmoved
<1>4. Prompt(j) => Prompt(l)
  BY DEF Prompt, TimedWaiting, Waiting
<1> QED
  BY <1>1, <1>2, <1>3, <1>4 DEF Steady, Elapses

\* A wait ended in the first of two passages of time is not touched by the second.
LEMMA ElapsesTransitive ==
  ASSUME NEW j, NEW l, NEW m, KernelInv(j), KernelInv(l), KernelInv(m),
         Elapses(j, l), Elapses(l, m)
  PROVE  Elapses(j, m)
<1>1. j.now \in Nat /\ l.now \in Nat /\ m.now \in Nat
      /\ \A t \in Tid : j.dl[t] \in Nat \cup {NoDeadline}
  BY DEF KernelInv, KernelType
<1>2. j.now <= m.now /\ (WithinBudget(j) => WithinBudget(m))
  BY <1>1 DEF Elapses
<1>3. ASSUME NEW t \in Tid
      PROVE  \/ Unmoved(j, m, t)
             \/ /\ j.state[t] = "waiting" /\ m.state[t] = "runnable"
                /\ Over(j, t, m.now) \/ (j.kind[t] = "epoll" /\ m.ret[t] = "0")
  <2>1. CASE Unmoved(j, l, t)
    BY <2>1 DEF Elapses, Unmoved, Over
  <2>2. CASE ~ Unmoved(j, l, t)
    <3>1. /\ j.state[t] = "waiting" /\ l.state[t] = "runnable"
          /\ Over(j, t, l.now) \/ (j.kind[t] = "epoll" /\ l.ret[t] = "0")
      BY <2>2 DEF Elapses
    <3>2. Unmoved(l, m, t) /\ l.now <= m.now
      BY <3>1 DEF Elapses
    <3>3. Over(j, t, l.now) => Over(j, t, m.now)
      BY <1>1, <3>2 DEF Over, NoDeadline
    <3> QED
      BY <3>1, <3>2, <3>3 DEF Unmoved
  <2> QED
    BY <2>1, <2>2
<1> QED
  BY <1>2, <1>3 DEF Elapses

\* Passages of time that leave nothing overdue compose.
LEMMA SteadyTransitive ==
  ASSUME NEW j, NEW l, NEW m, KernelInv(j), KernelInv(l), KernelInv(m),
         Steady(j, l), Steady(l, m)
  PROVE  Steady(j, m)
BY ElapsesTransitive DEF Steady

-----------------------------------------------------------------------------
\* markRunnable, field by field, of waiting contexts W.
Marked(j, l, Q, W, r) ==
    /\ l.now = j.now /\ l.cur = j.cur /\ l.waiters = Q
    /\ l.chaosOn = j.chaosOn /\ l.chaosSpent = j.chaosSpent
    /\ l.chaosStart = j.chaosStart /\ l.chaosUntil = j.chaosUntil
    /\ \A t \in W : l.state[t] = "runnable" /\ l.ret[t] = r
    /\ \A t \in Tid \ W : Unmoved(j, l, t)

\* It clears their wait and leaves the other contexts alone.
LEMMA MarkFields ==
  ASSUME NEW j, j \in KernelType, NEW W \in SUBSET Waiting(j),
         NEW Q \in [Addrs -> Seq(Tid)], NEW r \in {"none", "0", "ETIMEDOUT"}
  PROVE  Marked(j, MarkRunnable([j EXCEPT !.waiters = Q], W, r), Q, W, r)
<1> DEFINE jq == [j EXCEPT !.waiters = Q]
           jr == [jq EXCEPT
                   !.state = [t \in Tid |-> IF t \in W THEN "runnable" ELSE j.state[t]],
                   !.ret   = [t \in Tid |-> IF t \in W THEN r ELSE j.ret[t]]]
           l == MarkRunnable(jq, W, r)
<1>1. W \subseteq Tid /\ \A t \in W : j.state[t] = "waiting"
  BY DEF Waiting
<1>2. jr \in KernelType
  BY Zenon DEF KernelType
<1>3. l = ClearContextWaitFields(jr, W)
  <2>1. jq.state = j.state /\ jq.ret = j.ret
    BY DEF KernelType
  <2>2. {t \in W : jq.state[t] # "exited"} = W
    BY <2>1, <1>1
  <2> HIDE DEF jq
  <2> QED
    BY Zenon, <2>1, <2>2 DEF MarkRunnable
<1>4. /\ jr.now = j.now /\ jr.cur = j.cur /\ jr.waiters = Q
      /\ jr.chaosOn = j.chaosOn /\ jr.chaosSpent = j.chaosSpent
      /\ jr.chaosStart = j.chaosStart /\ jr.chaosUntil = j.chaosUntil
      /\ jr.state = [t \in Tid |-> IF t \in W THEN "runnable" ELSE j.state[t]]
      /\ jr.ret = [t \in Tid |-> IF t \in W THEN r ELSE j.ret[t]]
      /\ jr.kind = j.kind /\ jr.dl = j.dl
  BY DEF KernelType
<1> HIDE DEF jr, l
<1>5. /\ l.now = jr.now /\ l.cur = jr.cur /\ l.waiters = jr.waiters
      /\ l.chaosOn = jr.chaosOn /\ l.chaosSpent = jr.chaosSpent
      /\ l.chaosStart = jr.chaosStart /\ l.chaosUntil = jr.chaosUntil
      /\ l.state = jr.state /\ l.ret = jr.ret
  BY <1>2, <1>3 DEF ClearContextWaitFields, KernelType
<1>6. /\ l.kind = [t \in Tid |-> IF t \in W THEN "none" ELSE j.kind[t]]
      /\ l.dl = [t \in Tid |-> IF t \in W THEN NoDeadline ELSE j.dl[t]]
  BY SMTT(30), <1>2, <1>3, <1>4 DEF ClearContextWaitFields, KernelType
<1>7. /\ \A t \in W : l.state[t] = "runnable" /\ l.ret[t] = r
      /\ \A t \in Tid \ W : Unmoved(j, l, t)
  BY <1>1, <1>4, <1>5, <1>6 DEF Unmoved
<1> QED
  BY Zenon, <1>4, <1>5, <1>7 DEF l, Marked

\* Ending waits that are over, or epoll waits with events.
LEMMA MarkElapses ==
  ASSUME NEW j, KernelInv(j), NEW W \in SUBSET Waiting(j), NEW Q,
         NEW r, NEW l, Marked(j, l, Q, W, r),
         \A t \in W : Over(j, t, j.now) \/ (j.kind[t] = "epoll" /\ r = "0")
  PROVE  /\ Steady(j, l) /\ l.now = j.now
         /\ TimedWaiting(l) = TimedWaiting(j) \ W
         /\ \A t \in TimedWaiting(l) : l.dl[t] = j.dl[t] /\ l.kind[t] = j.kind[t]
<1>1. j \in KernelType /\ j.now \in Nat
  BY DEF KernelInv, KernelType
<1>2. \A t \in W : t \in Tid /\ j.state[t] = "waiting"
  BY DEF Waiting
<1>3. Elapses(j, l)
  BY <1>1, <1>2 DEF Elapses, WithinBudget, Marked
<1>4. /\ TimedWaiting(l) = TimedWaiting(j) \ W
      /\ \A t \in TimedWaiting(l) : l.dl[t] = j.dl[t] /\ l.kind[t] = j.kind[t]
  BY <1>2 DEF TimedWaiting, Waiting, Unmoved, Marked
<1>5. Prompt(j) => Prompt(l)
  BY <1>4 DEF Prompt, Marked
<1> QED
  BY <1>3, <1>4, <1>5 DEF Steady, Marked

\* refreshFutexTimeouts, refreshEpollTimeouts and refreshNanosleepTimeouts end
\* every wait of their kind that is over, and no other.  The exact counter makes
\* sure of the first when the scan is skipped.
LEMMA RefreshTimeoutsElapses ==
  ASSUME NEW j, KernelInv(j), NEW k \in TimedKinds
  PROVE  LET l == RefreshTimeouts(j, k)
         IN  /\ Elapses(j, l) /\ l.now = j.now
             /\ \A t \in TimedWaiting(l) :
                  /\ t \in TimedWaiting(j)
                  /\ l.dl[t] = j.dl[t] /\ l.kind[t] = j.kind[t]
                  /\ l.kind[t] = k => l.dl[t] > l.now
<1> DEFINE expired == {t \in TimedOfKind(j, k) : j.dl[t] <= j.now}
           Q == IF k = "futex" THEN [a \in Addrs |-> Without(j.waiters[a], expired)]
                ELSE j.waiters
           r == IF k = "futex" THEN "ETIMEDOUT" ELSE "0"
           l == RefreshTimeouts(j, k)
<1>1. /\ j \in KernelType /\ j.waiters \in [Addrs -> Seq(Tid)] /\ j.now \in Nat
      /\ \A t \in Tid : j.dl[t] \in Nat \cup {NoDeadline}
  BY DEF KernelInv, KernelType
<1>2. CASE j.timed[k] = 0
  <2>1. TimedOfKind(j, k) = {}
    <3>1. Cardinality(TimedOfKind(j, k)) = 0
      BY <1>2 DEF KernelInv, CountersExact
    <3> QED
      BY <3>1, TimedFinite, FS_EmptySet
  <2>2. l = j
    BY <1>2 DEF RefreshTimeouts
  <2>3. \A t \in TimedWaiting(j) : j.kind[t] # k
    BY <2>1 DEF TimedOfKind
  <2> HIDE DEF l
  <2>4. Elapses(j, l)
    BY <2>2, ElapsesSelf DEF Steady
  <2> QED
    BY <2>2, <2>3, <2>4 DEF l
<1>3. CASE j.timed[k] # 0
  <2>1. /\ expired \in SUBSET Waiting(j)
        /\ \A t \in expired : Over(j, t, j.now)
        /\ \A t \in TimedWaiting(j) \ expired : j.kind[t] = k => j.dl[t] > j.now
    BY <1>1 DEF TimedOfKind, TimedWaiting, Waiting, Over, NoDeadline
  <2>2. Q \in [Addrs -> Seq(Tid)]
    <3>1. \A a \in Addrs : j.waiters[a] \in Seq(Tid) /\ Distinct(j.waiters[a])
      BY <1>1 DEF KernelInv, QueuesExact, Distinct
    <3> HIDE DEF expired
    <3>2. \A a \in Addrs : Without(j.waiters[a], expired) \in Seq(Tid)
      BY <3>1, WithoutProperties
    <3> QED
      BY <1>1, <3>2
  <2>3. l = MarkRunnable([j EXCEPT !.waiters = Q], expired, r)
    <3>1. CASE k = "futex"
      BY <1>3, <3>1 DEF RefreshTimeouts, RemoveFutexWaiters
    <3>2. CASE k # "futex"
      <4>1. [j EXCEPT !.waiters = j.waiters] = j
        BY <1>1 DEF KernelType
      <4> HIDE DEF expired
      <4> QED
        BY <1>3, <3>2, <4>1 DEF RefreshTimeouts, expired
    <3> QED
      BY <3>1, <3>2
  <2>4. r \in {"none", "0", "ETIMEDOUT"}
    OBVIOUS
  <2> HIDE DEF expired, Q, r, l
  <2>5. Marked(j, l, Q, expired, r)
    BY Zenon, <1>1, <2>1, <2>2, <2>3, <2>4, MarkFields
  <2>6. /\ Steady(j, l) /\ l.now = j.now
        /\ TimedWaiting(l) = TimedWaiting(j) \ expired
        /\ \A t \in TimedWaiting(l) : l.dl[t] = j.dl[t] /\ l.kind[t] = j.kind[t]
    <3>1. \A t \in expired : Over(j, t, j.now) \/ (j.kind[t] = "epoll" /\ r = "0")
      BY <2>1
    <3> QED
      BY SMTT(30), <2>1, <2>5, <3>1, MarkElapses
  <2>7. ASSUME NEW t \in TimedWaiting(l)
        PROVE  /\ t \in TimedWaiting(j)
               /\ l.dl[t] = j.dl[t] /\ l.kind[t] = j.kind[t]
               /\ l.kind[t] = k => l.dl[t] > l.now
    BY <2>1, <2>6
  <2> QED
    BY Zenon, <2>6, <2>7 DEF Steady, l
<1> QED
  BY <1>2, <1>3

\* refreshBlocked leaves no wait that is over.
LEMMA RefreshBlockedElapses ==
  ASSUME NEW j, KernelInv(j)
  PROVE  LET l == RefreshBlocked(j)
         IN  Elapses(j, l) /\ l.now = j.now /\ Prompt(l) /\ KernelInv(l)
<1> DEFINE a == RefreshTimeouts(j, "futex")
           b == RefreshTimeouts(a, "epoll")
           c == RefreshTimeouts(b, "nanosleep")
           l == RefreshBlocked(j)
<1>1. KernelInv(a) /\ Elapses(j, a) /\ a.now = j.now
      /\ \A t \in TimedWaiting(a) : a.kind[t] = "futex" => a.dl[t] > a.now
  BY RefreshTimeoutsWakes, RefreshTimeoutsElapses DEF TimedKinds, Wakes
<1> HIDE DEF a
<1>2. KernelInv(b) /\ Elapses(a, b) /\ b.now = a.now
      /\ \A t \in TimedWaiting(b) : /\ b.kind[t] = "epoll" => b.dl[t] > b.now
                                   /\ t \in TimedWaiting(a)
                                   /\ b.dl[t] = a.dl[t] /\ b.kind[t] = a.kind[t]
  BY <1>1, RefreshTimeoutsWakes, RefreshTimeoutsElapses DEF TimedKinds, Wakes
<1> HIDE DEF b
<1>3. KernelInv(c) /\ Elapses(b, c) /\ c.now = b.now
      /\ \A t \in TimedWaiting(c) : /\ c.kind[t] = "nanosleep" => c.dl[t] > c.now
                                   /\ t \in TimedWaiting(b)
                                   /\ c.dl[t] = b.dl[t] /\ c.kind[t] = b.kind[t]
  BY <1>2, RefreshTimeoutsWakes, RefreshTimeoutsElapses DEF TimedKinds, Wakes
<1> HIDE DEF c
<1>4. Elapses(j, c)
  BY <1>1, <1>2, <1>3, ElapsesTransitive
<1>5. Prompt(c)
  <2> SUFFICES ASSUME NEW t \in TimedWaiting(c) PROVE c.dl[t] > c.now
    BY DEF Prompt
  <2>1. c.kind[t] \in TimedKinds
    BY <1>3 DEF TimedWaiting, Waiting, KernelInv, KernelType, WaitFieldsExact
  <2> QED
    BY <2>1, <1>1, <1>2, <1>3 DEF TimedKinds
<1>6. \/ l = c
      \/ l = [c EXCEPT !.blocked = FALSE, !.until = NoDeadline]
  BY DEF RefreshBlocked, UnblockIfOver, UnblockIf, a, b, c
<1>7. KernelInv(l)
  BY RefreshBlockedWakes DEF Wakes
<1> HIDE DEF l
<1>8. /\ l.now = c.now /\ l.state = c.state /\ l.kind = c.kind /\ l.dl = c.dl
      /\ l.ret = c.ret /\ l.chaosOn = c.chaosOn /\ l.chaosSpent = c.chaosSpent
      /\ l.chaosStart = c.chaosStart /\ l.chaosUntil = c.chaosUntil
  <2>1. c \in KernelType
    BY <1>3 DEF KernelInv
  <2>2. CASE l = [c EXCEPT !.blocked = FALSE, !.until = NoDeadline]
    BY Zenon, <2>1, <2>2 DEF KernelType
  <2> QED
    BY <1>6, <2>2
<1>9. Steady(c, l)
  BY <1>3, <1>8, FrameSteady
<1>10. Elapses(j, l) /\ Prompt(l)
  BY <1>3, <1>4, <1>5, <1>7, <1>9, ElapsesTransitive DEF Steady
<1> QED
  BY <1>1, <1>2, <1>3, <1>7, <1>8, <1>10 DEF l

\* Moving the clock forward and refreshing.
LEMMA AdvanceSteady ==
  ASSUME NEW j, KernelInv(j), NEW d \in Nat, j.now <= d
  PROVE  Elapses(j, [j EXCEPT !.now = d]) /\ Steady(j, RefreshBlocked([j EXCEPT !.now = d]))
<1> DEFINE a == [j EXCEPT !.now = d]
           b == RefreshBlocked(a)
<1>1. /\ j \in KernelType /\ j.now \in Nat
      /\ j.chaosSpent \in Nat /\ j.chaosUntil \in Nat /\ j.chaosStart \in Nat
  BY DEF KernelInv, KernelType
<1>2. /\ a.now = d /\ a.state = j.state
      /\ a.kind = j.kind /\ a.dl = j.dl /\ a.ret = j.ret /\ a.chaosOn = j.chaosOn
      /\ a.chaosSpent = j.chaosSpent /\ a.chaosStart = j.chaosStart
      /\ a.chaosUntil = j.chaosUntil
  BY <1>1 DEF KernelType
<1>3. KernelInv(a)
  BY SetNow DEF Wakes
<1> HIDE DEF a
<1>4. WithinBudget(j) => WithinBudget(a)
  <2>1. j.now * ChaosNum <= d * ChaosNum
    BY <1>1, ChaosAssumption
  <2>2. (j.chaosSpent + (j.chaosUntil - j.chaosStart)) * ChaosDen \in Int
    BY <1>1, ChaosAssumption
  <2>3. j.now * ChaosNum \in Int /\ d * ChaosNum \in Int
    BY <1>1, ChaosAssumption
  <2> QED
    BY <1>2, <2>1, <2>2, <2>3 DEF WithinBudget
<1>5. Elapses(j, a)
  BY <1>2, <1>4 DEF Elapses, Unmoved
<1>6. Elapses(a, b) /\ Prompt(b) /\ KernelInv(b)
  BY <1>3, RefreshBlockedElapses
<1> HIDE DEF b
<1>7. Steady(j, b)
  BY <1>3, <1>5, <1>6, ElapsesTransitive DEF Steady
<1> QED
  BY <1>5, <1>7 DEF a, b

-----------------------------------------------------------------------------
\* refreshChaosWindow turns the length of a window that is over into time spent.
LEMMA RefreshChaosWindowSteady ==
  ASSUME NEW j, KernelInv(j)
  PROVE  LET l == RefreshChaosWindow(j) IN Steady(j, l) /\ l.now = j.now
<1> DEFINE l == [j EXCEPT !.chaosSpent = j.chaosSpent + (j.chaosUntil - j.chaosStart),
                          !.chaosOn = FALSE, !.chaosStart = 0, !.chaosUntil = 0]
<1>1. /\ j \in KernelType /\ j.now \in Nat
      /\ j.chaosSpent \in Nat /\ j.chaosUntil \in Nat /\ j.chaosStart \in Nat
  BY DEF KernelInv, KernelType
<1>2. RefreshChaosWindow(j) = j \/ RefreshChaosWindow(j) = l
  BY DEF RefreshChaosWindow
<1>3. /\ l.now = j.now /\ l.state = j.state
      /\ l.kind = j.kind /\ l.dl = j.dl /\ l.ret = j.ret
      /\ l.chaosSpent = j.chaosSpent + (j.chaosUntil - j.chaosStart)
      /\ l.chaosStart = 0 /\ l.chaosUntil = 0
  BY <1>1 DEF KernelType
<1> HIDE DEF l
<1>4. l.chaosSpent + (l.chaosUntil - l.chaosStart)
        = j.chaosSpent + (j.chaosUntil - j.chaosStart)
  BY <1>1, <1>3
<1>5. WithinBudget(j) => WithinBudget(l)
  BY <1>3, <1>4, Zenon DEF WithinBudget
<1>6. Elapses(j, l)
  BY <1>1, <1>3, <1>5 DEF Elapses, Unmoved
<1>7. Prompt(j) => Prompt(l)
  BY <1>3 DEF Prompt, TimedWaiting, Waiting
<1> QED
  BY <1>2, <1>3, <1>6, <1>7, ElapsesSelf DEF Steady

\* What is left of the budget may be spent.
LEMMA BudgetLeft ==
  ASSUME NEW spent \in Nat, NEW len \in Nat, NEW total \in Nat,
         len <= (total \div ChaosDen) - spent
  PROVE  (spent + len) * ChaosDen <= total
<1>1. ChaosDen \in Nat \ {0}
  BY ChaosAssumption
<1> DEFINE quot == total \div ChaosDen
<1>2. quot \in Int /\ quot * ChaosDen <= total
  BY <1>1
<1>3. spent + len <= quot
  BY <1>2
<1> HIDE DEF quot
<1>4. (spent + len) * ChaosDen <= quot * ChaosDen
  BY <1>1, <1>2, <1>3
<1>5. (spent + len) * ChaosDen \in Int /\ quot * ChaosDen \in Int
  BY <1>1, <1>2
<1> QED
  BY <1>2, <1>4, <1>5

\* startChaosWindow opens a window no longer than the budget allows.
LEMMA StartChaosWindowSteady ==
  ASSUME NEW j, KernelInv(j), NEW dur \in Nat
  PROVE  Steady(j, StartChaosWindow(j, dur))
<1> DEFINE l == RefreshChaosWindow(j)
           left == RemainingChaosBudgetNS(l)
           len == IF dur > left THEN left ELSE dur
           m == [l EXCEPT !.chaosOn = TRUE, !.chaosStart = l.now,
                          !.chaosUntil = l.now + len]
<1>1. Steady(j, l) /\ KernelInv(l)
  BY RefreshChaosWindowSteady, RefreshChaosWindowWakes DEF Wakes
<1> HIDE DEF l
<1>2. /\ l \in KernelType /\ l.now \in Nat
      /\ l.chaosSpent \in Nat /\ l.chaosUntil \in Nat /\ l.chaosStart \in Nat
  BY <1>1 DEF KernelInv, KernelType
<1>3. left \in Int /\ left = ((l.now * ChaosNum) \div ChaosDen) - l.chaosSpent
      /\ l.now * ChaosNum \in Nat
  BY <1>2, ChaosAssumption DEF RemainingChaosBudgetNS
<1> HIDE DEF left
<1>4. \/ StartChaosWindow(j, dur) = l
      \/ left > 0 /\ ~ l.chaosOn /\ StartChaosWindow(j, dur) = m
  BY <1>3 DEF StartChaosWindow, OpenChaosWindow, l, left
<1>5. ASSUME left > 0, ~ l.chaosOn PROVE Steady(l, m) /\ KernelInv(m)
  <2>1. len \in Nat /\ len <= left
    BY <1>3, <1>5
  <2> HIDE DEF len
  <2>2. /\ m.now = l.now /\ m.state = l.state
        /\ m.kind = l.kind /\ m.dl = l.dl /\ m.ret = l.ret /\ m.chaosOn = TRUE
        /\ m.chaosSpent = l.chaosSpent
        /\ m.chaosStart = l.now /\ m.chaosUntil = l.now + len
    BY <1>2 DEF KernelType
  <2>3. KernelInv(m)
    <3>1. m = [l EXCEPT !.chaosSpent = l.chaosSpent, !.chaosOn = TRUE,
                        !.chaosStart = l.now, !.chaosUntil = l.now + len]
      BY Zenon, <1>2 DEF KernelType
    <3> HIDE DEF m
    <3>2. l.now + len \in Nat /\ l.now <= l.now + len
      BY <1>2, <2>1
    <3> QED
      BY Zenon, <1>1, <1>2, <3>1, <3>2, SetWindow DEF Wakes
  <2> HIDE DEF m
  <2>4. WithinBudget(m)
    <3>1. (l.chaosSpent + len) * ChaosDen <= l.now * ChaosNum
      BY <1>2, <1>3, <2>1, BudgetLeft
    <3>2. m.chaosSpent + (m.chaosUntil - m.chaosStart) = l.chaosSpent + len
      BY <1>2, <2>1, <2>2
    <3> QED
      BY <2>2, <3>1, <3>2 DEF WithinBudget
  <2>5. Elapses(l, m)
    BY <1>2, <2>2, <2>4 DEF Elapses, Unmoved
  <2>6. Prompt(l) => Prompt(m)
    BY <2>2 DEF Prompt, TimedWaiting, Waiting
  <2> QED
    BY <2>3, <2>5, <2>6 DEF Steady
<1> HIDE DEF m
<1> QED
  BY <1>1, <1>4, <1>5, SteadyTransitive

-----------------------------------------------------------------------------
\* The clock operators.
LEMMA AdvanceTowardSteady ==
  ASSUME NEW j, KernelInv(j), NEW deadline \in Nat, NEW step \in Nat
  PROVE  Steady(j, AdvanceVirtualClockTowardDeadline(j, deadline, step))
<1> DEFINE target == IF /\ j.chaosOn
                        /\ j.chaosUntil > j.now
                        /\ j.chaosUntil < deadline
                     THEN j.chaosUntil ELSE deadline
           gap == target - j.now
           delta == IF ClockPolicy \in {"PRNG", "Fixed"} /\ step < gap
                    THEN step ELSE gap
           d == j.now + delta
           a == [j EXCEPT !.now = d]
           b == RefreshChaosWindow(a)
           c == RefreshBlocked(b)
<1>1. CASE deadline <= j.now
  BY <1>1, ElapsesSelf DEF AdvanceVirtualClockTowardDeadline
<1>2. CASE ~(deadline <= j.now)
  <2>1. d \in Nat /\ j.now <= d
    BY <1>2 DEF KernelInv, KernelType
  <2>2. AdvanceVirtualClockTowardDeadline(j, deadline, step) = c
    BY <1>2 DEF AdvanceVirtualClockTowardDeadline
  <2> HIDE DEF d
  <2>3. Elapses(j, a) /\ KernelInv(a)
    BY <2>1, AdvanceSteady, SetNow DEF Wakes
  <2> HIDE DEF a
  <2>4. Elapses(a, b) /\ KernelInv(b)
    BY <2>3, RefreshChaosWindowSteady, RefreshChaosWindowWakes DEF Wakes, Steady
  <2> HIDE DEF b
  <2>5. Elapses(b, c) /\ KernelInv(c) /\ Prompt(c)
    BY <2>4, RefreshBlockedElapses
  <2> HIDE DEF c
  <2>6. Elapses(j, c)
    BY <2>3, <2>4, <2>5, ElapsesTransitive
  <2> QED
    BY <2>2, <2>5, <2>6 DEF Steady
<1> QED
  BY <1>1, <1>2

\* advanceVirtualClockForSchedulerEvent.
LEMMA SchedulerEventSteady ==
  ASSUME NEW j, KernelInv(j), NEW step \in Nat
  PROVE  Steady(j, AdvanceVirtualClockForSchedulerEvent(j, step))
<1> DEFINE j1 == IF ClockPolicy = "Chaos" THEN RefreshChaosWindow(j) ELSE j
           dl == MinOf(WaitDeadlines(j1))
           then == IF dl > j1.now THEN dl ELSE j1.now
           k == RefreshBlocked([j1 EXCEPT !.now = then])
<1>1. CASE ClockPolicy \in {"PRNG", "Fixed"}
  <2>1. j.now + step \in Nat /\ j.now <= j.now + step
    BY DEF KernelInv, KernelType
  <2>2. AdvanceVirtualClockForSchedulerEvent(j, step) =
          RefreshBlocked([j EXCEPT !.now = j.now + step])
    BY <1>1 DEF AdvanceVirtualClockForSchedulerEvent
  <2> QED
    BY <2>1, <2>2, AdvanceSteady
<1>2. CASE ClockPolicy \notin {"PRNG", "Fixed"}
  <2>1. Steady(j, j1) /\ KernelInv(j1)
    BY RefreshChaosWindowSteady, RefreshChaosWindowWakes, ElapsesSelf DEF Wakes
  <2> HIDE DEF j1
  <2>2. \/ AdvanceVirtualClockForSchedulerEvent(j, step) = j1
        \/ /\ WaitDeadlines(j1) # {}
           /\ AdvanceVirtualClockForSchedulerEvent(j, step) = k
    BY <1>2 DEF AdvanceVirtualClockForSchedulerEvent, JumpIfIdle, j1
  <2>3. ASSUME WaitDeadlines(j1) # {} PROVE then \in Nat /\ j1.now <= then
    <3>1. j1 \in KernelType /\ j1.now \in Nat
      BY <2>1 DEF KernelInv, KernelType
    <3>2. WaitDeadlines(j1) \in SUBSET Nat
      BY <3>1, DeadlinesNat
    <3>3. dl \in Nat
      BY <3>2, <2>3, MinOfMember
    <3> QED
      BY <3>1, <3>3
  <2> HIDE DEF then
  <2>4. ASSUME WaitDeadlines(j1) # {} PROVE Steady(j1, k) /\ KernelInv(k)
    <3>1. KernelInv([j1 EXCEPT !.now = then])
      BY <2>1, <2>3, <2>4, SetNow DEF Wakes
    <3> QED
      BY <2>1, <2>3, <2>4, <3>1, AdvanceSteady, RefreshBlockedWakes DEF Wakes
  <2> HIDE DEF k
  <2> QED
    BY <2>1, <2>2, <2>4, SteadyTransitive
<1> QED
  BY <1>1, <1>2

\* advanceVirtualClockWhenNoRunnableCandidate.
LEMMA NoCandidateSteady ==
  ASSUME NEW j, KernelInv(j), NEW step \in Nat
  PROVE  Steady(j, AdvanceVirtualClockWhenNoRunnableCandidate(j, step))
<1> DEFINE goals == WaitDeadlines(j) \cup
                    (IF j.chaosOn /\ j.chaosUntil > j.now THEN {j.chaosUntil} ELSE {})
<1>1. goals \in SUBSET Nat
  <2>1. j \in KernelType
    BY DEF KernelInv
  <2>2. j.chaosUntil \in Nat
    BY <2>1 DEF KernelType
  <2>3. WaitDeadlines(j) \in SUBSET Nat
    BY <2>1, DeadlinesNat
  <2> QED
    BY <2>2, <2>3
<1>2. ASSUME goals # {}
      PROVE  Steady(j, AdvanceVirtualClockTowardDeadline(j, MinOf(goals), step))
  <2> HIDE DEF goals
  <2>1. MinOf(goals) \in Nat
    BY Zenon, <1>1, <1>2, MinOfMember
  <2> QED
    BY <2>1, AdvanceTowardSteady
<1>3. \/ goals # {} /\ AdvanceVirtualClockWhenNoRunnableCandidate(j, step) =
                         AdvanceVirtualClockTowardDeadline(j, MinOf(goals), step)
      \/ AdvanceVirtualClockWhenNoRunnableCandidate(j, step) =
           AdvanceVirtualClockForSchedulerEvent(j, step)
      \/ AdvanceVirtualClockWhenNoRunnableCandidate(j, step) = j
  BY DEF AdvanceVirtualClockWhenNoRunnableCandidate
<1> QED
  BY <1>2, <1>3, SchedulerEventSteady, ElapsesSelf

\* The run loop's look at epoll waiters, and the end of a slice.
LEMMA EpollSteady ==
  ASSUME NEW j, KernelInv(j), NEW W \in SUBSET EpollWaiting(j)
  PROVE  Steady(j, MarkRunnable(j, W, "0"))
<1> DEFINE l == MarkRunnable(j, W, "0")
<1>1. j \in KernelType /\ j.waiters \in [Addrs -> Seq(Tid)]
  BY DEF KernelInv, KernelType
<1>2. W \in SUBSET Waiting(j) /\ \A t \in W : j.kind[t] = "epoll"
  BY DEF EpollWaiting
<1>3. [j EXCEPT !.waiters = j.waiters] = j
  BY <1>1 DEF KernelType
<1>4. Marked(j, MarkRunnable([j EXCEPT !.waiters = j.waiters], W, "0"), j.waiters, W, "0")
  BY Zenon, <1>1, <1>2, MarkFields
<1>5. Marked(j, l, j.waiters, W, "0")
  BY <1>3, <1>4
<1> HIDE DEF l
<1>6. \A t \in W : Over(j, t, j.now) \/ (j.kind[t] = "epoll" /\ "0" = "0")
  BY <1>2
<1>7. Steady(j, l)
  BY SMTT(30), <1>2, <1>5, <1>6, MarkElapses
<1> QED
  BY <1>7 DEF l

\* accountInsAttempts, refreshEpollReadiness and refreshBlocked in a row: whatever the
\* slice cost, nothing is overdue after it.
LEMMA EndSliceSteady ==
  ASSUME NEW j, KernelInv(j), NEW tick \in Nat, NEW W \in SUBSET EpollWaiting(j)
  PROVE  LET l == EndSlice(j, tick, W) IN Elapses(j, l) /\ Prompt(l) /\ KernelInv(l)
<1> DEFINE a == [j EXCEPT !.now = j.now + tick]
           b == RefreshEpollReadiness(a, W)
           c == RefreshBlocked(b)
<1>1. j.now + tick \in Nat /\ j.now <= j.now + tick /\ j \in KernelType
  BY DEF KernelInv, KernelType
<1>2. Elapses(j, a) /\ KernelInv(a)
  BY <1>1, AdvanceSteady, SetNow DEF Wakes
<1>3. a.state = j.state /\ a.kind = j.kind
  BY <1>1 DEF KernelType
<1> HIDE DEF a
<1>4. W \in SUBSET EpollWaiting(a)
  BY <1>3 DEF EpollWaiting, Waiting
<1>5. Elapses(a, b) /\ KernelInv(b)
  BY <1>2, <1>4, EpollSteady, EpollWakes DEF Wakes, Steady, RefreshEpollReadiness
<1> HIDE DEF b
<1>6. Elapses(b, c) /\ Prompt(c) /\ KernelInv(c)
  BY <1>5, RefreshBlockedElapses
<1>7. EndSlice(j, tick, W) = c
  BY DEF EndSlice, a, b
<1> HIDE DEF c
<1>8. Elapses(j, c)
  BY <1>2, <1>5, <1>6, ElapsesTransitive
<1> QED
  BY <1>6, <1>7, <1>8

-----------------------------------------------------------------------------
(* How a step of the scheduler may end waits. *)

\* Everybody in front of u in its queue has been woken.
FirstCome(j, l, u) ==
    \A a \in Addrs : \A i, k \in DOMAIN j.waiters[a] :
      i < k /\ j.waiters[a][k] = u => l.state[j.waiters[a][i]] # "waiting"

\* Between two states of a step, a wait goes on, is over, or is ended for an
\* epoll or futex waiter without being called a timeout.
Ends(j, l) ==
    \A t \in Waiting(j) :
      \/ l.state[t] = "waiting"
      \/ Over(j, t, l.now)
      \/ /\ l.ret[t] # "ETIMEDOUT"
         /\ j.kind[t] = "epoll" \/ (j.kind[t] = "futex" /\ FirstCome(j, l, t))

\* A context in a wait has no result yet: what a0 will be is decided at its end.
Quiet(j) ==
    /\ WithinBudget(j)
    /\ \A t \in Tid : j.state[t] = "waiting" => j.ret[t] = "none"

\* Whenever guest code runs nothing is overdue, and the result of the current
\* context has been handed over to it.
TimeInv ==
    /\ Quiet(jos)
    /\ run = "running" => Prompt(jos) /\ jos.ret[jos.cur] = "none"

\* The passage of time gives no result to a context that goes on waiting.
LEMMA ElapsesQuiet ==
  ASSUME NEW j, NEW l, Quiet(j), Elapses(j, l)
  PROVE  Quiet(l)
BY DEF Quiet, Elapses, Unmoved

\* It ends waits as a step may.
LEMMA ElapsesEnds ==
  ASSUME NEW j, NEW l, Elapses(j, l)
  PROVE  Ends(j, l)
<1> SUFFICES ASSUME NEW t \in Waiting(j)
             PROVE  \/ l.state[t] = "waiting"
                    \/ Over(j, t, l.now)
                    \/ l.ret[t] # "ETIMEDOUT" /\ j.kind[t] = "epoll"
  BY DEF Ends
<1> QED
  BY DEF Elapses, Unmoved, Waiting

\* Loading a context hands its result over, and changes nothing else that time
\* is about.
Hands(l, m) ==
    /\ m.now = l.now /\ m.state = l.state /\ m.kind = l.kind /\ m.dl = l.dl
    /\ WithinBudget(l) => WithinBudget(m)
    /\ \A t \in Tid : m.ret[t] \in {l.ret[t], "none"}

\* loadContext, with or without unblocking the guest.
LEMMA LoadHands ==
  ASSUME NEW j, KernelInv(j), NEW t \in Tid,
         NEW l, l \in {LoadContext(j, t), LoadAndUnblock(j, t)}
  PROVE  Hands(j, l) /\ l.cur = t /\ l.ret[t] = "none"
<1>1. j \in KernelType
  BY DEF KernelInv
<1>2. /\ l.now = j.now /\ l.state = j.state /\ l.kind = j.kind /\ l.dl = j.dl
      /\ l.cur = t /\ l.ret = [j.ret EXCEPT ![t] = "none"]
      /\ l.chaosOn = j.chaosOn /\ l.chaosSpent = j.chaosSpent
      /\ l.chaosStart = j.chaosStart /\ l.chaosUntil = j.chaosUntil
  <2> DEFINE a == LoadContext(j, t)
  <2>1. /\ a.now = j.now /\ a.state = j.state /\ a.kind = j.kind /\ a.dl = j.dl
        /\ a.cur = t /\ a.ret = [j.ret EXCEPT ![t] = "none"]
        /\ a.chaosOn = j.chaosOn /\ a.chaosSpent = j.chaosSpent
        /\ a.chaosStart = j.chaosStart /\ a.chaosUntil = j.chaosUntil
        /\ a \in KernelType
    BY Zenon, <1>1 DEF KernelType, LoadContext
  <2> HIDE DEF a
  <2>2. l = a \/ l = [a EXCEPT !.blocked = FALSE, !.until = NoDeadline]
    BY DEF a, LoadAndUnblock
  <2>3. CASE l = [a EXCEPT !.blocked = FALSE, !.until = NoDeadline]
    BY <2>1, <2>3 DEF KernelType
  <2> QED
    BY <2>1, <2>2, <2>3
<1>3. l.ret[t] = "none" /\ \A u \in Tid : l.ret[u] \in {j.ret[u], "none"}
  BY <1>1, <1>2 DEF KernelType
<1> QED
  BY <1>2, <1>3 DEF Hands, WithinBudget

\* What holds of a step before a context is loaded holds after it.
LEMMA HandsOn ==
  ASSUME NEW j, NEW l, NEW m, Hands(l, m)
  PROVE  /\ Quiet(l) => Quiet(m)
         /\ Prompt(l) => Prompt(m)
         /\ Ends(j, l) => Ends(j, m)
<1>1. Quiet(l) => Quiet(m)
  BY DEF Quiet, Hands
<1>2. Prompt(l) => Prompt(m)
  BY DEF Prompt, TimedWaiting, Waiting, Hands
<1>3. ASSUME Ends(j, l), NEW t \in Waiting(j)
      PROVE  \/ m.state[t] = "waiting"
             \/ Over(j, t, m.now)
             \/ /\ m.ret[t] # "ETIMEDOUT"
                /\ j.kind[t] = "epoll" \/ (j.kind[t] = "futex" /\ FirstCome(j, m, t))
  <2>1. m.ret[t] \in {l.ret[t], "none"} /\ m.now = l.now /\ m.state = l.state
    BY DEF Waiting, Hands
  <2>2. FirstCome(j, l, t) => FirstCome(j, m, t)
    BY <2>1 DEF FirstCome
  <2> QED
    BY <1>3, <2>1, <2>2 DEF Ends
<1>4. Ends(j, l) => Ends(j, m)
  BY <1>3 DEF Ends
<1> QED
  BY <1>1, <1>2, <1>4

\* What a handler leaves to the run loop.
LEMMA ContinueTime ==
  ASSUME run = "running", NEW j, Quiet(j), Prompt(j), j.ret[j.cur] = "none",
         Ends(jos, j), Continue(j)
  PROVE  TimeInv' /\ Ends(jos, jos')
BY DEF TimeInv, Continue, Quiet, WithinBudget, Prompt, TimedWaiting, Waiting

\* A run that ends keeps what does not depend on guest code running.
LEMMA StopTime ==
  ASSUME NEW j, Quiet(j), Ends(jos, j), NEW outcome \in {"blocked", "exited"},
         NEW reason, Stop(j, outcome, reason)
  PROVE  TimeInv' /\ Ends(jos, jos')
BY DEF TimeInv, Stop, Quiet, WithinBudget

-----------------------------------------------------------------------------
(* Blocking. *)

\* The current context enters a wait that is not over; the others go on.
LEMMA EnterWaitTime ==
  ASSUME NEW j, KernelInv(j), j.state[j.cur] = "runnable",
         NEW k \in TimedKinds, NEW a \in Addrs \cup {NoAddr},
         NEW deadline \in Nat \cup {NoDeadline},
         deadline # NoDeadline => deadline > j.now,
         Quiet(j), Prompt(j), j.ret[j.cur] = "none",
         NEW l, l = EnterWait(j, k, a, deadline)
  PROVE  /\ Quiet(l) /\ Prompt(l) /\ l.now = j.now /\ l.cur = j.cur
         /\ \A t \in Tid \ {j.cur} : Unmoved(j, l, t)
<1> DEFINE t == j.cur
           j0 == [j EXCEPT !.state[t] = "waiting"]
           more == IF deadline = NoDeadline THEN 0 ELSE 1
           j2 == [j0 EXCEPT !.kind[t] = k, !.addr[t] = a, !.dl[t] = deadline,
                            !.timed[k] = j0.timed[k] + more]
<1>1. /\ j \in KernelType /\ t \in Tid
      /\ j.state \in [Tid -> {"unborn", "runnable", "waiting", "exited"}]
      /\ j.kind \in [Tid -> TimedKinds \cup {"none"}]
      /\ j.dl \in [Tid -> Nat \cup {NoDeadline}]
  BY DEF KernelInv, KernelType
<1>2. j.kind[t] = "none" /\ j.addr[t] = NoAddr /\ j.dl[t] = NoDeadline
  BY <1>1 DEF KernelInv, WaitFieldsExact
<1>3. /\ j0 \in KernelType /\ j0.cur = t /\ j0.now = j.now /\ j0.ret = j.ret
      /\ j0.kind = j.kind /\ j0.addr = j.addr /\ j0.dl = j.dl
      /\ j0.state = [j.state EXCEPT ![t] = "waiting"]
      /\ j0.chaosOn = j.chaosOn /\ j0.chaosSpent = j.chaosSpent
      /\ j0.chaosStart = j.chaosStart /\ j0.chaosUntil = j.chaosUntil
  BY Zenon, <1>1 DEF KernelType
<1> HIDE DEF j0
<1>4. ClearContextWaitFields(j0, {t}) = j0
  BY <1>1, <1>2, <1>3, ClearIdle
<1>5. l = IF a = NoAddr THEN j2 ELSE [j2 EXCEPT !.waiters[a] = Append(@, t)]
  <2>1. l = BeginWait(j0, k, a, deadline)
    BY <1>4 DEF EnterWait, j0
  <2> QED
    BY <2>1, <1>3 DEF BeginWait
<1>6. /\ j2.cur = t /\ j2.now = j.now /\ j2.ret = j.ret
      /\ j2.state = [j.state EXCEPT ![t] = "waiting"]
      /\ j2.kind = [j.kind EXCEPT ![t] = k]
      /\ j2.dl = [j.dl EXCEPT ![t] = deadline]
      /\ j2.chaosOn = j.chaosOn /\ j2.chaosSpent = j.chaosSpent
      /\ j2.chaosStart = j.chaosStart /\ j2.chaosUntil = j.chaosUntil
  BY Zenon, <1>3 DEF KernelType
<1>7. DOMAIN j2 = DOMAIN j0 /\ DOMAIN j0 = DOMAIN j
  BY DEF j0
<1> HIDE DEF j2
<1>8. /\ l.cur = j2.cur /\ l.now = j2.now /\ l.ret = j2.ret /\ l.state = j2.state
      /\ l.kind = j2.kind /\ l.dl = j2.dl
      /\ l.chaosOn = j2.chaosOn /\ l.chaosSpent = j2.chaosSpent
      /\ l.chaosStart = j2.chaosStart /\ l.chaosUntil = j2.chaosUntil
  BY <1>1, <1>5, <1>7 DEF KernelType
<1>9. \A u \in Tid \ {t} : Unmoved(j, l, u)
  BY <1>1, <1>6, <1>8 DEF Unmoved
<1>10. Quiet(l)
  BY <1>1, <1>6, <1>8 DEF Quiet, WithinBudget
<1>11. Prompt(l)
  <2>1. l.dl[t] = deadline
    BY <1>1, <1>6, <1>8
  <2> QED
    BY <1>6, <1>8, <1>9, <2>1 DEF Prompt, TimedWaiting, Waiting, Unmoved
<1> QED
  BY <1>6, <1>8, <1>9, <1>10, <1>11

\* scheduleAfterCurrentBlocked lets time pass, then loads a context or reports
\* that there is none.
LEMMA ScheduleSettles ==
  ASSUME NEW j, KernelInv(j), NEW step \in Nat, NEW r,
         r = ScheduleAfterCurrentBlocked(j, step)
  PROVE  \E l : /\ KernelInv(l) /\ Steady(j, l)
                /\ \/ \E t \in Eligible(l) : r = LoadAndUnblock(l, t)
                   \/ r = BlockUntilDeadline(l)
<1> DEFINE j1 == RefreshChaosWindow(j)
           adv == AdvanceVirtualClockWhenNoRunnableCandidate(j1, step)
           j2 == RefreshChaosWindow(adv)
<1>1. KernelInv(j1) /\ Steady(j, j1)
  BY RefreshChaosWindowWakes, RefreshChaosWindowSteady DEF Wakes
<1>2. r = LoadNextOrBlock(j1, step)
  BY DEF ScheduleAfterCurrentBlocked
<1> HIDE DEF j1
<1>3. KernelInv(adv) /\ Steady(j1, adv)
  BY <1>1, NoCandidateWakes, NoCandidateSteady DEF Wakes
<1>4. \/ OthersEligible(j1) # {} /\ r = LoadAndUnblock(j1, NextRunnableByPolicyAfterCurrent(j1))
      \/ r = BlockUntilDeadline(j1)
      \/ r = LoadFirstOrBlock(j2)
  BY <1>2 DEF LoadNextOrBlock
<1> HIDE DEF adv
<1>5. KernelInv(j2) /\ Steady(adv, j2)
  BY <1>3, RefreshChaosWindowWakes, RefreshChaosWindowSteady DEF Wakes
<1> HIDE DEF j2
<1>6. Steady(j, j2)
  BY <1>1, <1>3, <1>5, SteadyTransitive
<1>7. OthersEligible(j1) # {} => NextRunnableByPolicyAfterCurrent(j1) \in Eligible(j1)
  BY <1>1, NextEligible DEF KernelInv, OthersEligible
<1>8. \/ r = BlockUntilDeadline(j2)
      \/ Eligible(j2) # {} /\ r = LoadAndUnblock(j2, FirstRunnableByPolicy(j2))
      \/ r # LoadFirstOrBlock(j2)
  BY DEF LoadFirstOrBlock
<1>9. Eligible(j2) # {} => FirstRunnableByPolicy(j2) \in Eligible(j2)
  BY FirstEligible
<1> QED
  BY Zenon, <1>1, <1>4, <1>5, <1>6, <1>7, <1>8, <1>9

\* Reporting the guest blocked changes nothing that time is about.
LEMMA BlockUntilSteady ==
  ASSUME NEW j, KernelInv(j), NEW l, l = BlockUntilDeadline(j)
  PROVE  Steady(j, l) /\ KernelInv(l) /\ l.blocked
<1> DEFINE until == IF WaitDeadlines(j) = {} THEN NoDeadline ELSE MinOf(WaitDeadlines(j))
<1>1. j \in KernelType
  BY DEF KernelInv
<1>2. until \in Nat \cup {NoDeadline}
  <2>1. WaitDeadlines(j) \in SUBSET Nat
    BY <1>1, DeadlinesNat
  <2> QED
    BY <2>1, MinOfMember
<1>3. l = [j EXCEPT !.blocked = TRUE, !.until = until]
  BY DEF BlockUntilDeadline
<1> HIDE DEF until
<1>4. KernelInv(l)
  <2>1. Wakes(j, [j EXCEPT !.blocked = TRUE, !.until = until])
    BY Zenon, <1>2, SetBlocked
  <2> QED
    BY <1>3, <2>1 DEF Wakes
<1>5. /\ l.now = j.now /\ l.state = j.state /\ l.kind = j.kind /\ l.dl = j.dl
      /\ l.ret = j.ret /\ l.chaosOn = j.chaosOn /\ l.chaosSpent = j.chaosSpent
      /\ l.chaosStart = j.chaosStart /\ l.chaosUntil = j.chaosUntil /\ l.blocked
  BY <1>1, <1>3 DEF KernelType
<1>6. Steady(j, l)
  BY <1>5, FrameSteady
<1> QED
  BY <1>4, <1>5, <1>6

\* Waits of others that end while the current context blocks.
LEMMA BlockEnds ==
  ASSUME NEW h, NEW j, NEW l, NEW m, KernelInv(h), KernelInv(j), KernelInv(m),
         Elapses(h, j), h.state[h.cur] # "waiting", l.now = j.now,
         \A t \in Tid \ {h.cur} : Unmoved(j, l, t), Elapses(l, m)
  PROVE  Ends(h, m)
<1>1. j.now \in Nat /\ m.now \in Nat /\ \A t \in Tid : h.dl[t] \in Nat \cup {NoDeadline}
  BY DEF KernelInv, KernelType
<1>2. j.now <= m.now
  BY DEF Elapses
<1> SUFFICES ASSUME NEW t \in Waiting(h)
             PROVE  \/ m.state[t] = "waiting"
                    \/ Over(h, t, m.now)
                    \/ m.ret[t] # "ETIMEDOUT" /\ h.kind[t] = "epoll"
  BY DEF Ends
<1>3. t \in Tid \ {h.cur} /\ h.state[t] = "waiting" /\ Unmoved(j, l, t)
  BY DEF Waiting
<1>4. CASE Unmoved(h, j, t)
  BY <1>3, <1>4 DEF Elapses, Unmoved, Over
<1>5. CASE ~ Unmoved(h, j, t)
  <2>1. /\ j.state[t] = "runnable"
        /\ Over(h, t, j.now) \/ (h.kind[t] = "epoll" /\ j.ret[t] = "0")
    BY <1>3, <1>5 DEF Elapses
  <2>2. Unmoved(l, m, t)
    BY <1>3, <2>1 DEF Elapses, Unmoved
  <2>3. Over(h, t, j.now) => Over(h, t, m.now)
    BY <1>1, <1>2, <1>3 DEF Over, NoDeadline
  <2> QED
    BY <1>3, <2>1, <2>2, <2>3 DEF Unmoved
<1> QED
  BY <1>4, <1>5

\* The tail that every blocking system call shares.
LEMMA BlockTime ==
  ASSUME IInv, TimeInv, run = "running",
         NEW j, Ready(j), Elapses(jos, j), Prompt(j), j.cur = jos.cur, NEW k \in TimedKinds,
         NEW a \in Addrs \cup {NoAddr}, (k = "futex") <=> (a # NoAddr),
         NEW deadline \in Nat \cup {NoDeadline}, deadline # NoDeadline => deadline > j.now,
         NEW step \in Nat, NEW tick \in Nat, NEW W, Block(j, k, a, deadline, step, tick, W)
  PROVE  TimeInv' /\ Ends(jos, jos')
<1> DEFINE e == EnterWait(j, k, a, deadline)
           r == ScheduleAfterCurrentBlocked(e, step)
<1>1. /\ KernelInv(jos) /\ jos.state[jos.cur] = "runnable" /\ Quiet(jos)
      /\ jos.ret[jos.cur] = "none" /\ KernelInv(j) /\ j.state[j.cur] = "runnable"
      /\ jos.cur \in Tid
  BY Zenon DEF IInv, CurrentRunnable, TimeInv, Ready, KernelInv, KernelType
<1>2. Quiet(j) /\ j.ret[j.cur] = "none"
  BY <1>1, ElapsesQuiet DEF Elapses, Unmoved
<1>3. KernelInv(e)
  BY <1>1, EnterWaitInv
<1>4. /\ Quiet(e) /\ Prompt(e) /\ e.now = j.now /\ e.cur = j.cur
      /\ \A t \in Tid \ {j.cur} : Unmoved(j, e, t)
  BY Zenon, <1>1, <1>2, EnterWaitTime
<1>5. AfterHandle(r, tick, W)
  BY DEF Block
<1> HIDE DEF e
<1>6. PICK l : /\ KernelInv(l) /\ Steady(e, l)
               /\ \/ \E t \in Eligible(l) : r = LoadAndUnblock(l, t)
                  \/ r = BlockUntilDeadline(l)
  BY <1>3, ScheduleSettles
<1> HIDE DEF r
<1>7. ASSUME NEW m, KernelInv(m), Elapses(e, m) PROVE Ends(jos, m) /\ Quiet(m)
  <2>1. Ends(jos, m)
    BY Zenon, <1>1, <1>4, <1>7, BlockEnds
  <2> QED
    BY <1>4, <1>7, <2>1, ElapsesQuiet
<1>8. ASSUME NEW m, KernelInv(m), Elapses(e, m), Prompt(m), NEW t \in Eligible(m),
             Continue(LoadAndUnblock(m, t))
      PROVE  TimeInv' /\ Ends(jos, jos')
  <2> DEFINE n == LoadAndUnblock(m, t)
  <2>1. t \in Tid
    BY DEF Eligible, Runnable
  <2>2. Hands(m, n) /\ n.cur = t /\ n.ret[t] = "none"
    BY <1>8, <2>1, LoadHands
  <2> HIDE DEF n
  <2>3. Quiet(n) /\ Prompt(n) /\ Ends(jos, n)
    BY <1>7, <1>8, <2>2, HandsOn
  <2> QED
    BY <1>8, <2>2, <2>3, ContinueTime DEF n
<1>9. CASE \E t \in Eligible(l) : r = LoadAndUnblock(l, t)
  <2>1. PICK t \in Eligible(l) : r = LoadAndUnblock(l, t)
    BY <1>9
  <2>2. ~ r.blocked
    BY Zenon, <1>6, <2>1 DEF LoadAndUnblock, LoadContext, KernelInv, KernelType
  <2>3. Continue(r)
    BY <1>5, <2>2 DEF AfterHandle
  <2> QED
    BY <1>4, <1>6, <1>8, <2>1, <2>3 DEF Steady
<1>10. CASE r = BlockUntilDeadline(l)
  <2>1. KernelInv(r) /\ Elapses(e, r) /\ r.blocked
    BY Zenon, <1>3, <1>6, <1>10, BlockUntilSteady, SteadyTransitive DEF Steady
  <2>2. CASE Stop(r, "exited", "blocked")
    BY Zenon, <1>7, <2>1, <2>2, StopTime
  <2>3. CASE RunAfterBlocked(r, tick, W)
    <3> DEFINE b == EndSlice(r, tick, W)
               c == RefreshChaosWindow(b)
    <3>1. Elapses(r, b) /\ Prompt(b) /\ KernelInv(b)
      BY <2>1, <2>3, EndSliceSteady DEF RunAfterBlocked
    <3>2. ResumeOrStop(c)
      BY <2>3 DEF RunAfterBlocked
    <3> HIDE DEF b
    <3>3. Steady(b, c) /\ KernelInv(c)
      BY <3>1, RefreshChaosWindowSteady, RefreshChaosWindowWakes DEF Wakes
    <3> HIDE DEF c
    <3>4. Elapses(e, c) /\ Prompt(c)
      BY Zenon, <1>3, <2>1, <3>1, <3>3, ElapsesTransitive DEF Steady
    <3>5. \/ Eligible(c) # {} /\ Continue(LoadAndUnblock(c, FirstRunnableByPolicy(c)))
          \/ Stop(c, "blocked", "none")
          \/ Stop(c, "exited", "blocked")
      BY <3>2 DEF ResumeOrStop
    <3>6. Eligible(c) # {} => FirstRunnableByPolicy(c) \in Eligible(c)
      BY FirstEligible
    <3> QED
      BY <1>7, <1>8, <3>3, <3>4, <3>5, <3>6, StopTime
  <2> QED
    BY <1>5, <2>1, <2>2, <2>3 DEF AfterHandle, RunJITAfterBlocked
<1> QED
  BY <1>6, <1>9, <1>10

-----------------------------------------------------------------------------
(* The steps. *)

\* The current context, which does not wait, keeps its result.
LEMMA ElapsesCurrent ==
  ASSUME IInv, TimeInv, run = "running", NEW j, Wakes(jos, j), Elapses(jos, j)
  PROVE  j.ret[j.cur] = "none" /\ Quiet(j) /\ Ends(jos, j)
<1>1. jos.cur \in Tid /\ jos.state[jos.cur] = "runnable" /\ j.cur = jos.cur
  BY Zenon DEF IInv, CurrentRunnable, KernelInv, KernelType, Wakes
<1>2. jos.ret[jos.cur] = "none" /\ Quiet(jos)
  BY DEF TimeInv
<1> QED
  BY <1>1, <1>2, ElapsesQuiet, ElapsesEnds DEF Elapses, Unmoved

\* The current context goes on, or another is loaded, after time has passed.
LEMMA RunsOn ==
  ASSUME IInv, TimeInv, run = "running", NEW j, Wakes(jos, j), Elapses(jos, j), Prompt(j),
         Continue(j) \/ Continue(LoadNext(j))
  PROVE  TimeInv' /\ Ends(jos, jos')
<1>1. j.ret[j.cur] = "none" /\ Quiet(j) /\ Ends(jos, j) /\ KernelInv(j)
  BY ElapsesCurrent DEF Wakes
<1>2. CASE Continue(j)
  BY <1>1, <1>2, ContinueTime
<1>3. CASE OthersEligible(j) # {} /\ Continue(LoadNext(j))
  <2> DEFINE t == NextRunnableByPolicyAfterCurrent(j)
             l == LoadContext(j, t)
  <2>1. t \in Tid
    BY <1>1, <1>3, NextEligible DEF KernelInv, OthersEligible, Eligible, Runnable
  <2>2. Continue(l)
    BY <1>3 DEF LoadNext
  <2>3. Hands(j, l) /\ l.cur = t /\ l.ret[t] = "none"
    BY <1>1, <2>1, LoadHands
  <2> HIDE DEF l, t
  <2>4. Quiet(l) /\ Prompt(l) /\ Ends(jos, l)
    BY <1>1, <2>3, HandsOn
  <2> QED
    BY Zenon, <2>2, <2>3, <2>4, ContinueTime
<1> QED
  BY <1>2, <1>3 DEF LoadNext

\* futex, epoll_pwait and pselect6 with a timeout.
LEMMA TimedWaitTime ==
  ASSUME IInv, TimeInv, run = "running", NEW kind \in TimedKinds,
         NEW a \in Addrs \cup {NoAddr}, (kind = "futex") <=> (a # NoAddr),
         NEW timeout \in Nat, NEW step \in Nat, NEW tick \in Nat, NEW W,
         TimedWait(kind, a, timeout, step, tick, W)
  PROVE  TimeInv' /\ Ends(jos, jos')
<1> DEFINE j1 == RefreshChaosWindow(jos)
           deadline == jos.now + timeout
           j2 == AdvanceIfAlone(j1, deadline, step)
<1>1. Ready(jos) /\ KernelInv(jos) /\ Prompt(jos) /\ deadline \in Nat
  <2>1. jos.now \in Nat
    BY DEF IInv, KernelInv, KernelType
  <2> QED
    BY <2>1 DEF IInv, CurrentRunnable, Ready, TimeInv
<1>2. \/ j2.now >= deadline /\ Continue(j2)
      \/ j2.now < deadline /\ Block(j2, kind, a, deadline, step, tick, W)
  BY DEF TimedWait, BlockUnlessOver
<1> HIDE DEF deadline
<1>3. Wakes(jos, j1) /\ Steady(jos, j1) /\ KernelInv(j1)
  BY <1>1, RefreshChaosWindowWakes, RefreshChaosWindowSteady DEF Wakes
<1> HIDE DEF j1
<1>4. Wakes(j1, j2) /\ Steady(j1, j2)
  BY <1>1, <1>3, WakesSelf, ElapsesSelf, AdvanceTowardWakes, AdvanceTowardSteady
     DEF AdvanceIfAlone
<1> HIDE DEF j2
<1>5. /\ Wakes(jos, j2) /\ Elapses(jos, j2) /\ Prompt(j2)
      /\ Ready(j2) /\ j2.cur = jos.cur /\ j2.now \in Nat
  <2>1. Wakes(jos, j2)
    BY <1>3, <1>4, WakesTransitive
  <2>2. Steady(jos, j2)
    BY <1>1, <1>3, <1>4, SteadyTransitive DEF Wakes
  <2> QED
    BY Zenon, <1>1, <2>1, <2>2, WakesReady DEF Steady, Wakes, KernelInv, KernelType
<1>6. CASE Continue(j2)
  BY <1>5, <1>6, RunsOn
<1>7. CASE j2.now < deadline /\ Block(j2, kind, a, deadline, step, tick, W)
  <2>1. deadline > j2.now
    BY <1>1, <1>5, <1>7
  <2> QED
    BY SMTT(30), <1>1, <1>5, <1>7, <2>1, BlockTime
<1> QED
  BY <1>2, <1>6, <1>7

\* Waits without a timeout.
LEMMA UntimedWaitTime ==
  ASSUME IInv, TimeInv, run = "running", NEW kind \in TimedKinds,
         NEW a \in Addrs \cup {NoAddr}, (kind = "futex") <=> (a # NoAddr),
         NEW step \in Nat, NEW tick \in Nat, NEW W, UntimedWait(kind, a, step, tick, W)
  PROVE  TimeInv' /\ Ends(jos, jos')
<1>1. Ready(jos) /\ Elapses(jos, jos) /\ Prompt(jos)
  BY ElapsesSelf DEF IInv, CurrentRunnable, Ready, TimeInv, Steady
<1>2. Block(jos, kind, a, NoDeadline, step, tick, W)
  BY DEF UntimedWait
<1> QED
  BY Zenon, <1>1, <1>2, BlockTime

\* nanosleep, whose timeouts are not zero.
LEMMA SysNanosleepTime ==
  ASSUME IInv, TimeInv, run = "running", NEW d \in Nat \ {0}, NEW step \in Nat,
         NEW tick \in Nat, NEW W, SysNanosleep(d, step, tick, W)
  PROVE  TimeInv' /\ Ends(jos, jos')
<1>1. Ready(jos) /\ Elapses(jos, jos) /\ Prompt(jos)
  BY ElapsesSelf DEF IInv, CurrentRunnable, Ready, TimeInv, Steady
<1>2. /\ Block(jos, "nanosleep", NoAddr, jos.now + d, step, tick, W)
      /\ "nanosleep" \in TimedKinds
  BY DEF SysNanosleep, TimedKinds
<1>3. jos.now + d \in Nat /\ jos.now + d > jos.now
  BY DEF IInv, KernelInv, KernelType
<1> QED
  BY SMTT(30), <1>1, <1>2, <1>3, BlockTime

\* wakeFutex: the waiters it wakes are the first of their queue.
LEMMA WakeFutexTime ==
  ASSUME NEW j, KernelInv(j), NEW a \in Addrs, NEW limit \in Nat,
         NEW l, l = WakeFutex(j, a, limit)
  PROVE  /\ Quiet(j) => Quiet(l)
         /\ Prompt(j) => Prompt(l)
         /\ Ends(j, l)
         /\ \A t \in Tid : j.state[t] # "waiting" => l.ret[t] = j.ret[t]
<1> DEFINE q == j.waiters[a]
           m == IF limit < Len(q) THEN limit ELSE Len(q)
           woken == {q[i] : i \in 1..m}
           rest == SubSeq(q, m + 1, Len(q))
           Q == [j.waiters EXCEPT ![a] = rest]
           b == MarkRunnable([j EXCEPT !.waiters = Q], woken, "0")
<1>1. /\ j \in KernelType /\ j.waiters \in [Addrs -> Seq(Tid)] /\ q \in Seq(Tid)
      /\ Len(q) \in Nat /\ DOMAIN q = 1..Len(q) /\ \A i \in 1..Len(q) : q[i] \in Tid
  BY SequenceShape DEF KernelInv, KernelType
<1>2. m \in 0..Len(q)
  BY <1>1
<1>3. \A t \in Tid : \A c \in Addrs : Occurs(t, j.waiters[c]) <=>
           (j.state[t] = "waiting" /\ j.kind[t] = "futex" /\ j.addr[t] = c)
  BY DEF KernelInv, QueuesExact
<1>4. \A c \in Addrs : Distinct(j.waiters[c])
  BY DEF KernelInv, QueuesExact, Distinct
<1>5. \/ l = b
      \/ l = [b EXCEPT !.blocked = FALSE, !.until = NoDeadline]
  BY Zenon, <1>1 DEF WakeFutex, UnblockIfRunnable, UnblockIf
<1> HIDE DEF m
<1>6. \A i \in 1..m : /\ Occurs(q[i], q) /\ q[i] \in Tid
                      /\ j.state[q[i]] = "waiting" /\ j.kind[q[i]] = "futex" /\ j.addr[q[i]] = a
  <2>1. \A i \in 1..m : Occurs(q[i], q) /\ q[i] \in Tid
    BY <1>1, <1>2 DEF Occurs
  <2> QED
    BY <1>3, <2>1
<1>7. woken \in SUBSET Waiting(j)
  BY <1>6 DEF Waiting
<1>8. Q \in [Addrs -> Seq(Tid)]
  <2>1. rest \in Seq(Tid)
    BY <1>1, <1>2
  <2> QED
    BY <1>1, <2>1
<1>9. \A t \in woken : j.kind[t] = "futex" /\ \E h \in 1..m : t = q[h]
  BY <1>6
<1>10. ASSUME NEW t \in woken, NEW c \in Addrs, NEW i \in DOMAIN j.waiters[c],
              NEW k \in DOMAIN j.waiters[c], i < k, j.waiters[c][k] = t
       PROVE  j.waiters[c][i] \in woken
  <2>1. PICK h \in 1..m : t = q[h]
    OBVIOUS
  <2>2. t \in Tid /\ Occurs(t, j.waiters[c])
    BY Zenon, <1>6, <1>10, <2>1 DEF Occurs
  <2>3. c = a
    BY <1>3, <1>6, <2>1, <2>2
  <2>4. h \in DOMAIN q /\ k \in DOMAIN q /\ q[h] = q[k]
    BY <1>1, <1>2, <1>10, <2>1, <2>3
  <2>5. h = k
    BY <1>4, <2>4 DEF Distinct
  <2>6. i \in 1..m
    BY <1>1, <1>2, <1>10, <2>3, <2>5
  <2> QED
    BY <2>3, <2>6
<1> HIDE DEF woken, Q
<1>11. Marked(j, b, Q, woken, "0")
  BY Zenon, <1>1, <1>7, <1>8, MarkFields
<1>12. DOMAIN b = DOMAIN j
  BY DEF MarkRunnable, ClearContextWaitFields
<1> HIDE DEF b
<1>13. /\ l.now = b.now /\ l.state = b.state /\ l.ret = b.ret /\ l.kind = b.kind
       /\ l.dl = b.dl /\ l.chaosOn = b.chaosOn /\ l.chaosSpent = b.chaosSpent
       /\ l.chaosStart = b.chaosStart /\ l.chaosUntil = b.chaosUntil
  <2>1. CASE l = b
    BY <2>1
  <2>2. CASE l = [b EXCEPT !.blocked = FALSE, !.until = NoDeadline]
    <3>1. {"now", "state", "ret", "kind", "dl", "chaosOn", "chaosSpent", "chaosStart",
           "chaosUntil"} \subseteq DOMAIN b
      BY <1>1, <1>12 DEF KernelType
    <3> QED
      BY <2>2, <3>1
  <2> QED
    BY <1>5, <2>1, <2>2
<1>14. /\ l.now = j.now
       /\ \A t \in woken : l.state[t] = "runnable" /\ l.ret[t] = "0"
       /\ \A t \in Tid \ woken : Unmoved(j, l, t)
       /\ WithinBudget(j) => WithinBudget(l)
  BY <1>11, <1>13 DEF Marked, Unmoved, WithinBudget
<1>15. Quiet(j) => Quiet(l)
  BY <1>14 DEF Quiet, Unmoved
<1>16. Prompt(j) => Prompt(l)
  BY <1>14 DEF Prompt, TimedWaiting, Waiting, Unmoved
<1>17. \A t \in woken : FirstCome(j, l, t)
  BY Zenon, <1>10, <1>14 DEF FirstCome
<1>18. Ends(j, l)
  BY <1>9, <1>14, <1>17 DEF Ends, Unmoved, Waiting
<1>19. \A t \in Tid : j.state[t] # "waiting" => l.ret[t] = j.ret[t]
  BY <1>7, <1>14 DEF Waiting, Unmoved
<1> QED
  BY Zenon, <1>15, <1>16, <1>18, <1>19

\* futex(FUTEX_WAKE).
LEMMA SysFutexWakeTime ==
  ASSUME IInv, TimeInv, run = "running", NEW a \in Addrs, NEW limit \in Nat,
         SysFutexWake(a, limit)
  PROVE  TimeInv' /\ Ends(jos, jos')
<1> DEFINE l == WakeFutex(jos, a, limit)
<1>1. /\ KernelInv(jos) /\ Quiet(jos) /\ Prompt(jos) /\ jos.ret[jos.cur] = "none"
      /\ jos.cur \in Tid /\ jos.state[jos.cur] = "runnable"
  BY DEF IInv, TimeInv, CurrentRunnable, KernelInv, KernelType
<1>2. Continue(l) /\ l = WakeFutex(jos, a, limit)
  BY DEF SysFutexWake
<1>3. l.cur = jos.cur
  BY <1>1, WakeFutexWakes DEF Wakes
<1> HIDE DEF l
<1>4. /\ Quiet(l) /\ Prompt(l) /\ Ends(jos, l)
      /\ \A t \in Tid : jos.state[t] # "waiting" => l.ret[t] = jos.ret[t]
  BY SMTT(30), <1>1, <1>2, WakeFutexTime
<1> QED
  BY Zenon, <1>1, <1>2, <1>3, <1>4, ContinueTime

\* A write that makes a descriptor ready for epoll waiters.
LEMMA WakeEpollTime ==
  ASSUME IInv, TimeInv, run = "running", NEW W, WakeEpollWaitersForFD(W)
  PROVE  TimeInv' /\ Ends(jos, jos')
<1> DEFINE l == MarkRunnable(jos, W, "0")
<1>1. KernelInv(jos) /\ Prompt(jos) /\ W \in SUBSET EpollWaiting(jos) /\ Continue(l)
  BY DEF IInv, TimeInv, WakeEpollWaitersForFD
<1>2. Wakes(jos, l) /\ Steady(jos, l)
  BY <1>1, EpollWakes, EpollSteady
<1> HIDE DEF l
<1> QED
  BY <1>1, <1>2, RunsOn DEF Steady

\* sched_yield.
LEMMA SysSchedYieldTime ==
  ASSUME IInv, TimeInv, run = "running", NEW step \in Nat, SysSchedYield(step)
  PROVE  TimeInv' /\ Ends(jos, jos')
<1> DEFINE a == AdvanceVirtualClockForSchedulerEvent(jos, step)
           b == RefreshChaosWindow(a)
<1>1. KernelInv(jos) /\ Prompt(jos)
  BY Zenon DEF IInv, TimeInv
<1>2. Wakes(jos, a) /\ Steady(jos, a) /\ KernelInv(a)
  BY <1>1, SchedulerEventWakes, SchedulerEventSteady DEF Wakes
<1>3. Continue(LoadNext(b))
  BY DEF SysSchedYield
<1> HIDE DEF a
<1>4. Wakes(a, b) /\ Steady(a, b) /\ KernelInv(b)
  BY <1>2, RefreshChaosWindowWakes, RefreshChaosWindowSteady DEF Wakes
<1> HIDE DEF b
<1>5. Wakes(jos, b) /\ Steady(jos, b)
  BY <1>1, <1>2, <1>4, WakesTransitive, SteadyTransitive
<1> QED
  BY Zenon, <1>1, <1>3, <1>5, RunsOn DEF Steady

\* A signal ends a wait without a result, and the context is not loaded.
Interrupts(j, l) ==
    \A t \in Waiting(j) : l.state[t] = "waiting" \/ (l.ret[t] = "none" /\ l.cur # t)

\* tgkill and tkill.
LEMMA SysTgkillTime ==
  ASSUME IInv, TimeInv, run = "running", NEW t \in Tid, SysTgkill(t)
  PROVE  TimeInv' /\ Interrupts(jos, jos')
<1> DEFINE a == IF jos.kind[t] = "futex" THEN RemoveFutexWaiters(jos, {t}) ELSE jos
           b == ClearContextWaitFields(a, {t})
           l == [b EXCEPT !.state[t] = "runnable"]
<1>1. /\ jos \in KernelType /\ jos.cur \in Tid /\ jos.state[jos.cur] = "runnable"
      /\ jos.state \in [Tid -> {"unborn", "runnable", "waiting", "exited"}]
      /\ jos.kind \in [Tid -> TimedKinds \cup {"none"}]
      /\ jos.dl \in [Tid -> Nat \cup {NoDeadline}]
  BY Zenon DEF IInv, CurrentRunnable, KernelInv, KernelType
<1>2. Quiet(jos) /\ Prompt(jos) /\ jos.ret[jos.cur] = "none"
  BY DEF TimeInv
<1>3. jos.state[t] = "waiting" /\ Continue(l)
  BY DEF SysTgkill, Waiting, InterruptWait, CancelContextWait
<1>4. /\ a.now = jos.now /\ a.cur = jos.cur /\ a.state = jos.state /\ a.ret = jos.ret
      /\ a.kind = jos.kind /\ a.dl = jos.dl /\ a.chaosOn = jos.chaosOn
      /\ a.chaosSpent = jos.chaosSpent /\ a.chaosStart = jos.chaosStart
      /\ a.chaosUntil = jos.chaosUntil
  BY <1>1 DEF RemoveFutexWaiters, KernelType
<1>5. DOMAIN a = DOMAIN jos
  BY DEF RemoveFutexWaiters
<1> HIDE DEF a
<1>6. /\ b.now = a.now /\ b.cur = a.cur /\ b.state = a.state /\ b.ret = a.ret
      /\ b.kind = [u \in Tid |-> IF u \in {t} THEN "none" ELSE a.kind[u]]
      /\ b.dl = [u \in Tid |-> IF u \in {t} THEN NoDeadline ELSE a.dl[u]]
      /\ b.chaosOn = a.chaosOn
      /\ b.chaosSpent = a.chaosSpent /\ b.chaosStart = a.chaosStart
      /\ b.chaosUntil = a.chaosUntil
  BY SMTT(30), <1>1, <1>5 DEF ClearContextWaitFields, KernelType
<1>7. DOMAIN b = DOMAIN a
  BY DEF ClearContextWaitFields
<1> HIDE DEF b
<1>8. /\ l.now = b.now /\ l.cur = b.cur /\ l.ret = b.ret
      /\ l.state = [b.state EXCEPT ![t] = "runnable"]
      /\ l.kind = b.kind /\ l.dl = b.dl /\ l.chaosOn = b.chaosOn
      /\ l.chaosSpent = b.chaosSpent /\ l.chaosStart = b.chaosStart
      /\ l.chaosUntil = b.chaosUntil
  BY <1>1, <1>5, <1>7 DEF KernelType
<1> HIDE DEF l
<1>9. /\ l.state[t] = "runnable" /\ \A u \in Tid \ {t} : Unmoved(jos, l, u)
      /\ l.now = jos.now /\ l.cur = jos.cur /\ l.ret = jos.ret /\ WithinBudget(l)
  <2>1. l.state[t] = "runnable" /\ \A u \in Tid \ {t} : Unmoved(jos, l, u)
    <3>1. l.state = [jos.state EXCEPT ![t] = "runnable"] /\ l.ret = jos.ret
      BY Zenon, <1>4, <1>6, <1>8
    <3>2. /\ l.kind = [u \in Tid |-> IF u \in {t} THEN "none" ELSE jos.kind[u]]
          /\ l.dl = [u \in Tid |-> IF u \in {t} THEN NoDeadline ELSE jos.dl[u]]
      BY Zenon, <1>4, <1>6, <1>8
    <3>3. l.state[t] = "runnable" /\ \A u \in Tid \ {t} : l.state[u] = jos.state[u]
      BY Zenon, <1>1, <3>1
    <3>4. \A u \in Tid \ {t} : l.kind[u] = jos.kind[u] /\ l.dl[u] = jos.dl[u]
      BY Zenon, <3>2
    <3> QED
      BY Zenon, <3>1, <3>3, <3>4 DEF Unmoved
  <2>2. l.now = jos.now /\ l.cur = jos.cur /\ l.ret = jos.ret
    BY Zenon, <1>4, <1>6, <1>8
  <2>3. /\ l.chaosOn = jos.chaosOn /\ l.chaosSpent = jos.chaosSpent
        /\ l.chaosStart = jos.chaosStart /\ l.chaosUntil = jos.chaosUntil
    BY Zenon, <1>4, <1>6, <1>8
  <2>4. WithinBudget(l)
    BY <1>2, <2>2, <2>3 DEF Quiet, WithinBudget
  <2> QED
    BY Zenon, <2>1, <2>2, <2>4
<1>10. Quiet(l)
  BY <1>2, <1>9 DEF Quiet, Unmoved
<1>11. Prompt(l)
  BY <1>2, <1>9 DEF Prompt, TimedWaiting, Waiting, Unmoved
<1>12. Interrupts(jos, l)
  BY <1>1, <1>2, <1>3, <1>9 DEF Interrupts, Waiting, Quiet, Unmoved
<1>13. jos' = l /\ run' = run
  BY Zenon, <1>3 DEF Continue
<1> QED
  BY ZenonT(60), <1>2, <1>9, <1>10, <1>11, <1>12, <1>13
     DEF TimeInv, Quiet, Prompt, Interrupts, WithinBudget, TimedWaiting, Waiting

\* clone.
LEMMA SysCloneTime ==
  ASSUME IInv, TimeInv, run = "running", NEW a \in Addrs \cup {NoAddr}, SysClone(a)
  PROVE  TimeInv' /\ Ends(jos, jos')
<1> DEFINE t == jos.n + 1
           l == [jos EXCEPT !.n = t, !.state[t] = "runnable", !.clear[t] = a]
<1>1. /\ jos \in KernelType /\ KernelInv(jos) /\ jos.cur \in Tid
      /\ Quiet(jos) /\ Prompt(jos) /\ jos.ret[jos.cur] = "none"
  BY Zenon DEF IInv, TimeInv, KernelInv, KernelType
<1>2. jos.n < NThreads /\ Continue(l)
  BY SMTT(30) DEF SysClone
<1>3. t \in Tid /\ jos.state[t] # "waiting"
  <2>1. jos.n \in 1..NThreads /\ t \in Tid
    BY <1>1, <1>2, NThreadsAssumption DEF KernelType, Tid
  <2>2. jos.state[t] = "unborn"
    BY <1>1, <2>1 DEF KernelInv, WaitFieldsExact, Tid
  <2> QED
    BY <2>1, <2>2
<1>4. /\ l.now = jos.now /\ l.cur = jos.cur /\ l.ret = jos.ret
      /\ l.state = [jos.state EXCEPT ![t] = "runnable"]
      /\ l.kind = jos.kind /\ l.dl = jos.dl /\ l.chaosOn = jos.chaosOn
      /\ l.chaosSpent = jos.chaosSpent /\ l.chaosStart = jos.chaosStart
      /\ l.chaosUntil = jos.chaosUntil
  BY Zenon, <1>1 DEF KernelType
<1> HIDE DEF l
<1>5. \A u \in Tid : l.state[u] = "waiting" <=> jos.state[u] = "waiting"
  BY Zenon, <1>1, <1>3, <1>4 DEF KernelType
<1>6. Quiet(l) /\ Prompt(l) /\ Ends(jos, l)
  BY <1>1, <1>4, <1>5 DEF Quiet, WithinBudget, Prompt, TimedWaiting, Waiting, Ends
<1> QED
  BY <1>1, <1>2, <1>4, <1>6, ContinueTime

\* set_tid_address.
LEMMA SysSetTidAddressTime ==
  ASSUME IInv, TimeInv, run = "running", NEW a \in Addrs, SysSetTidAddress(a)
  PROVE  TimeInv' /\ Ends(jos, jos')
<1> DEFINE l == [jos EXCEPT !.clear[jos.cur] = a]
<1>1. /\ jos \in KernelType /\ KernelInv(jos) /\ Prompt(jos) /\ Quiet(jos)
      /\ jos.ret[jos.cur] = "none"
  BY DEF IInv, TimeInv, KernelInv
<1>2. /\ l.now = jos.now /\ l.cur = jos.cur /\ l.ret = jos.ret /\ l.state = jos.state
      /\ l.kind = jos.kind /\ l.dl = jos.dl /\ l.chaosOn = jos.chaosOn
      /\ l.chaosSpent = jos.chaosSpent /\ l.chaosStart = jos.chaosStart
      /\ l.chaosUntil = jos.chaosUntil
  BY Zenon, <1>1 DEF KernelType
<1>3. Continue(l)
  BY DEF SysSetTidAddress
<1> HIDE DEF l
<1>4. Steady(jos, l)
  BY <1>1, <1>2, FrameSteady
<1>5. Quiet(l) /\ Prompt(l) /\ Ends(jos, l)
  BY <1>1, <1>4, ElapsesQuiet, ElapsesEnds DEF Steady
<1> QED
  BY Zenon, <1>1, <1>2, <1>3, <1>5, ContinueTime

\* exitCurrentThread, with the wake-up of clearChildTID.
LEMMA ExitCurrentThreadTime ==
  ASSUME IInv, TimeInv, run = "running", NEW l, l = ExitCurrentThread(jos)
  PROVE  Quiet(l) /\ Prompt(l) /\ Ends(jos, l)
<1> DEFINE t == jos.cur
           j == [jos EXCEPT !.state[t] = "exited"]
<1>1. /\ KernelInv(jos) /\ jos \in KernelType /\ t \in Tid /\ jos.state[t] = "runnable"
      /\ Quiet(jos) /\ Prompt(jos)
  BY Zenon DEF IInv, CurrentRunnable, KernelInv, KernelType, TimeInv
<1>2. jos.kind[t] = "none" /\ jos.addr[t] = NoAddr /\ jos.dl[t] = NoDeadline
  BY Zenon, <1>1 DEF KernelInv, WaitFieldsExact
<1>3. CancelContextWait(jos, t) = jos
  BY <1>1, <1>2, ClearIdle DEF CancelContextWait
<1>4. KernelInv(j)
  BY Zenon, <1>1, SetStateInv
<1>5. jos.clear[t] \in Addrs \cup {NoAddr}
  BY <1>1 DEF KernelType
<1>6. \/ l = j
      \/ jos.clear[t] # NoAddr /\ l = WakeFutex(j, jos.clear[t], 1)
  BY <1>3 DEF ExitCurrentThread
<1>7. /\ j.now = jos.now /\ j.ret = jos.ret /\ j.state = [jos.state EXCEPT ![t] = "exited"]
      /\ j.kind = jos.kind /\ j.dl = jos.dl /\ j.waiters = jos.waiters
      /\ j.chaosOn = jos.chaosOn /\ j.chaosSpent = jos.chaosSpent
      /\ j.chaosStart = jos.chaosStart /\ j.chaosUntil = jos.chaosUntil
  BY Zenon, <1>1 DEF KernelType
<1> HIDE DEF j
<1>8. \A u \in Tid : j.state[u] = "waiting" <=> jos.state[u] = "waiting"
  BY <1>1, <1>7 DEF KernelType
<1>9. Quiet(j) /\ Prompt(j) /\ Ends(jos, j)
  BY ZenonT(60), <1>1, <1>7, <1>8 DEF Quiet, WithinBudget, Prompt, TimedWaiting, Waiting, Ends
<1>10. CASE l = j
  BY <1>9, <1>10
<1>11. CASE jos.clear[t] # NoAddr /\ l = WakeFutex(j, jos.clear[t], 1)
  <2>1. Quiet(l) /\ Prompt(l) /\ Ends(j, l)
    BY <1>4, <1>5, <1>9, <1>11, WakeFutexTime
  <2>2. Waiting(jos) = Waiting(j)
    BY <1>8 DEF Waiting
  <2>3. Ends(jos, l)
    <3>1. ASSUME NEW u PROVE /\ Over(jos, u, l.now) <=> Over(j, u, l.now)
                             /\ FirstCome(jos, l, u) <=> FirstCome(j, l, u)
      <4>1. j.dl = jos.dl /\ j.waiters = jos.waiters
        BY <1>7
      <4> QED BY <4>1 DEF Over, FirstCome
    <3> QED BY Zenon, <1>7, <2>1, <2>2, <3>1 DEF Ends
  <2> QED
    BY <2>1, <2>3
<1> QED
  BY <1>6, <1>10, <1>11

\* refreshChaosWindow moves no context.
LEMMA RefreshChaosWindowHands ==
  ASSUME NEW j, KernelInv(j)
  PROVE  Hands(j, RefreshChaosWindow(j))
<1> DEFINE l == RefreshChaosWindow(j)
<1>1. j \in KernelType
  BY DEF KernelInv
<1>2. /\ l.now = j.now /\ l.state = j.state /\ l.kind = j.kind /\ l.dl = j.dl
      /\ l.ret = j.ret
  BY <1>1 DEF RefreshChaosWindow, KernelType
<1>3. WithinBudget(j) => WithinBudget(l)
  BY RefreshChaosWindowSteady DEF Steady, Elapses
<1> QED
  BY <1>2, <1>3 DEF Hands

\* exit.
LEMMA SysExitTime ==
  ASSUME IInv, TimeInv, run = "running", SysExit
  PROVE  TimeInv' /\ Ends(jos, jos')
<1> DEFINE a == ExitCurrentThread(jos)
           b == RefreshChaosWindow(a)
<1>1. Ready(jos) /\ KernelInv(jos) /\ Quiet(jos) /\ Ends(jos, jos)
  BY ElapsesSelf, ElapsesEnds DEF IInv, CurrentRunnable, Ready, TimeInv, Steady
<1>2. KernelInv(a) /\ Quiet(a) /\ Prompt(a) /\ Ends(jos, a)
  BY <1>1, ExitCurrentThreadInv, ExitCurrentThreadTime
<1>3. \/ Stop(jos, "exited", "main")
      \/ Stop(b, "exited", "last")
      \/ OthersEligible(b) # {} /\ Continue(LoadNext(b))
  BY DEF SysExit, LoadNextOrEnd
<1> HIDE DEF a
<1>4. KernelInv(b) /\ Hands(a, b)
  BY <1>2, RefreshChaosWindowWakes, RefreshChaosWindowHands DEF Wakes
<1> HIDE DEF b
<1>5. Quiet(b) /\ Prompt(b) /\ Ends(jos, b)
  BY <1>2, <1>4, HandsOn
<1>6. CASE OthersEligible(b) # {} /\ Continue(LoadNext(b))
  <2> DEFINE t == NextRunnableByPolicyAfterCurrent(b)
             l == LoadContext(b, t)
  <2>1. t \in Tid
    BY <1>4, <1>6, NextEligible DEF KernelInv, OthersEligible, Eligible, Runnable
  <2>2. Continue(l)
    BY <1>6 DEF LoadNext
  <2>3. Hands(b, l) /\ l.cur = t /\ l.ret[t] = "none"
    BY <1>4, <2>1, LoadHands
  <2> HIDE DEF l, t
  <2>4. Quiet(l) /\ Prompt(l) /\ Ends(jos, l)
    BY <1>5, <2>3, HandsOn
  <2> QED
    BY Zenon, <2>2, <2>3, <2>4, ContinueTime
<1> QED
  BY Zenon, <1>1, <1>3, <1>5, <1>6, StopTime

\* The end of a slice, seen from the run loop.
LEMMA EndSliceTime ==
  ASSUME IInv, run = "running", NEW tick \in Nat, NEW W \in SUBSET EpollWaiting(jos),
         NEW j, j = StayRunnable(EndSlice(jos, tick, W))
  PROVE  Wakes(jos, j) /\ Elapses(jos, j) /\ Prompt(j)
<1> DEFINE a == EndSlice(jos, tick, W)
<1>1. Ready(jos) /\ KernelInv(jos)
  BY DEF IInv, CurrentRunnable, Ready
<1>2. Wakes(jos, a) /\ Elapses(jos, a) /\ Prompt(a)
  BY <1>1, EndSliceWakes, EndSliceSteady
<1> HIDE DEF a
<1>3. Ready(a)
  BY <1>1, <1>2, WakesReady
<1>4. StayRunnable(a) = a
  BY <1>3 DEF Ready, KernelInv, KernelType, StayRunnable
<1> QED
  BY <1>2, <1>4 DEF a

\* expireSchedulerQuantum.
LEMMA ExpireSchedulerQuantumTime ==
  ASSUME IInv, TimeInv, run = "running", NEW reshuffled \in BOOLEAN, NEW low,
         NEW len \in Nat, NEW step \in Nat, NEW tick \in Nat, NEW W,
         ExpireSchedulerQuantum(reshuffled, low, len, step, tick, W)
  PROVE  TimeInv' /\ Ends(jos, jos')
<1> DEFINE j1 == StayRunnable(EndSlice(jos, tick, W))
           j2 == ReshuffleIf(reshuffled, j1, low)
           w  == StartChaosWindow(j2, len)
           j3 == RefreshChaosWindow(w)
           v  == AdvanceVirtualClockWhenNoRunnableCandidate(j3, step)
           j4 == RefreshChaosWindow(v)
<1>1. Continue(LoadNextOrAdvance(j3, step)) /\ W \in SUBSET EpollWaiting(jos)
  BY DEF ExpireSchedulerQuantum
<1>2. Wakes(jos, j1) /\ Elapses(jos, j1) /\ Prompt(j1) /\ KernelInv(j1) /\ KernelInv(jos)
      /\ Ready(jos)
  BY Zenon, <1>1, EndSliceTime DEF Wakes, IInv, Ready, CurrentRunnable
<1> HIDE DEF j1
<1>3. Wakes(j1, j2) /\ Steady(j1, j2)
  <2>1. CASE j2 = j1
    BY <1>2, <2>1, WakesSelf, ElapsesSelf
  <2>2. CASE j2 = Reshuffle(j1, low)
    <3>1. j1 \in KernelType
      BY <1>2 DEF KernelInv
    <3>2. Ready(j2)
      BY <1>2, <2>2, WakesReady, ReshuffleReady
    <3>3. /\ j2.now = j1.now /\ j2.state = j1.state /\ j2.kind = j1.kind /\ j2.dl = j1.dl
          /\ j2.ret = j1.ret /\ j2.chaosOn = j1.chaosOn /\ j2.chaosSpent = j1.chaosSpent
          /\ j2.chaosStart = j1.chaosStart /\ j2.chaosUntil = j1.chaosUntil
          /\ j2.cur = j1.cur
      BY Zenon, <2>2, <3>1 DEF Reshuffle, KernelType
    <3>4. Steady(j1, j2)
      BY Zenon, <1>2, <3>3, FrameSteady
    <3> QED
      BY Zenon, <3>2, <3>3, <3>4 DEF Wakes, Ready
  <2> QED
    BY <2>1, <2>2 DEF ReshuffleIf
<1> HIDE DEF j2
<1>4. Wakes(j2, w) /\ Steady(j2, w)
  BY Zenon, <1>3, StartChaosWindowWakes, StartChaosWindowSteady DEF Wakes
<1> HIDE DEF w
<1>5. Wakes(w, j3) /\ Steady(w, j3)
  BY <1>4, RefreshChaosWindowWakes, RefreshChaosWindowSteady DEF Wakes
<1>6. LoadNextOrAdvance(j3, step) \in {j4, LoadNext(j3), LoadNext(j4)}
  BY DEF LoadNextOrAdvance, LoadNextIfMoved
<1> HIDE DEF j3
<1>7. Wakes(j3, v) /\ Steady(j3, v)
  BY Zenon, <1>5, NoCandidateWakes, NoCandidateSteady DEF Wakes
<1> HIDE DEF v
<1>8. Wakes(v, j4) /\ Steady(v, j4)
  BY <1>7, RefreshChaosWindowWakes, RefreshChaosWindowSteady DEF Wakes
<1> HIDE DEF j4
<1>9. KernelInv(j2) /\ KernelInv(w) /\ KernelInv(j3) /\ KernelInv(v) /\ KernelInv(j4)
  BY <1>3, <1>4, <1>5, <1>7, <1>8 DEF Wakes
<1>10. Wakes(jos, j3) /\ Elapses(jos, j3) /\ Prompt(j3)
  <2>1. Wakes(jos, j2) /\ Elapses(jos, j2) /\ Prompt(j2)
    BY Zenon, <1>2, <1>3, <1>9, WakesTransitive, ElapsesTransitive DEF Steady
  <2>2. Wakes(jos, w) /\ Elapses(jos, w) /\ Prompt(w)
    BY Zenon, <1>2, <1>4, <1>9, <2>1, WakesTransitive, ElapsesTransitive DEF Steady
  <2> QED
    BY <1>2, <1>5, <1>9, <2>2, WakesTransitive, ElapsesTransitive DEF Steady
<1>11. Wakes(jos, j4) /\ Elapses(jos, j4) /\ Prompt(j4)
  <2>1. Wakes(jos, v) /\ Elapses(jos, v) /\ Prompt(v)
    BY <1>2, <1>7, <1>9, <1>10, WakesTransitive, ElapsesTransitive DEF Steady
  <2> QED
    BY <1>2, <1>8, <1>9, <2>1, WakesTransitive, ElapsesTransitive DEF Steady
<1>12. Continue(j4) \/ Continue(LoadNext(j3)) \/ Continue(LoadNext(j4))
  BY <1>1, <1>6
<1> QED
  BY <1>10, <1>11, <1>12, RunsOn

\* expireBudget.
LEMMA ExpireBudgetTime ==
  ASSUME IInv, TimeInv, run = "running", NEW tick \in Nat, NEW W, ExpireBudget(tick, W)
  PROVE  TimeInv' /\ Ends(jos, jos')
<1> DEFINE j == StayRunnable(EndSlice(jos, tick, W))
<1>1. Continue(j) /\ W \in SUBSET EpollWaiting(jos)
  BY DEF ExpireBudget
<1>2. Wakes(jos, j) /\ Elapses(jos, j) /\ Prompt(j)
  BY <1>1, EndSliceTime
<1> HIDE DEF j
<1> QED
  BY <1>1, <1>2, RunsOn

-----------------------------------------------------------------------------
(* The specification. *)

\* Nobody waits at the start, and no window is open.
LEMMA InitTime == Init => TimeInv
<1> SUFFICES ASSUME Init PROVE TimeInv
  OBVIOUS
<1> DEFINE j == KernelInit(StartNS)
<1>1. jos = j /\ run = "running"
  BY DEF Init
<1>2. /\ \A t \in Tid : j.state[t] # "waiting" /\ j.ret[t] = "none"
      /\ j.cur \in Tid /\ j.now = StartNS
      /\ j.chaosStart = 0 /\ j.chaosUntil = 0 /\ j.chaosSpent = 0
  <2>1. Pid \in Tid
    BY NThreadsAssumption DEF Pid, Tid
  <2>2. j.cur = Pid /\ j.now = StartNS
    BY Zenon DEF KernelInit
  <2>3. j.chaosStart = 0 /\ j.chaosUntil = 0 /\ j.chaosSpent = 0
    BY Zenon DEF KernelInit
  <2>4. j.state = [t \in Tid |-> IF t = Pid THEN "runnable" ELSE "unborn"]
    BY Zenon DEF KernelInit
  <2>5. j.ret = [t \in Tid |-> "none"]
    BY Zenon DEF KernelInit
  <2> HIDE DEF j
  <2>6. \A t \in Tid : j.state[t] # "waiting" /\ j.ret[t] = "none"
    BY <2>4, <2>5
  <2> QED
    BY <2>1, <2>2, <2>3, <2>6
<1> HIDE DEF j
<1>3. 0 * ChaosDen <= StartNS * ChaosNum
  <2>1. StartNS \in Nat /\ ChaosNum \in Nat /\ ChaosDen \in Nat
    BY SchedAssumption, ChaosAssumption
  <2>2. 0 * ChaosDen = 0 /\ StartNS * ChaosNum \in Nat
    BY <2>1
  <2> QED
    BY <2>2
<1>4. WithinBudget(j)
  BY <1>2, <1>3 DEF WithinBudget
<1> QED
  BY <1>1, <1>2, <1>4 DEF TimeInv, Quiet, Prompt, TimedWaiting, Waiting

\* Every blocking call: one step per call.
LEMMA BlockingCallTime ==
  ASSUME IInv, TimeInv, run = "running", NEW step \in Nat, NEW tick \in Nat, NEW W,
         BlockingCall(step, tick, W)
  PROVE  TimeInv' /\ Ends(jos, jos')
<1>1. Timeouts \subseteq Nat \ {0} /\ TimedKinds = {"futex", "epoll", "nanosleep"}
  BY SchedAssumption DEF TimedKinds
<1>2. ASSUME NEW a \in Addrs, SysFutexWait(a, step, tick, W) PROVE TimeInv' /\ Ends(jos, jos')
  BY <1>1, <1>2, NoAddrAssumption, TimedWaitTime, UntimedWaitTime DEF SysFutexWait
<1>3. ASSUME SysEpollPwait(step, tick, W) PROVE TimeInv' /\ Ends(jos, jos')
  BY <1>1, <1>3, TimedWaitTime, UntimedWaitTime DEF SysEpollPwait
<1>4. ASSUME SysPselect6(step, tick, W) PROVE TimeInv' /\ Ends(jos, jos')
  BY <1>1, <1>4, TimedWaitTime DEF SysPselect6
<1>5. ASSUME NEW d \in Timeouts, SysNanosleep(d, step, tick, W)
      PROVE  TimeInv' /\ Ends(jos, jos')
  BY <1>1, <1>5, SysNanosleepTime
<1> QED
  BY <1>2, <1>3, <1>4, <1>5 DEF BlockingCall

\* Every other call.
LEMMA OtherCallTime ==
  ASSUME IInv, TimeInv, run = "running", NEW step \in Nat, OtherCall(step)
  PROVE  TimeInv' /\ (Ends(jos, jos') \/ Interrupts(jos, jos'))
<1>1. ASSUME NEW a \in Addrs, NEW limit \in 1..2, SysFutexWake(a, limit)
      PROVE  TimeInv' /\ Ends(jos, jos')
  BY <1>1, SysFutexWakeTime
<1>2. ASSUME SysExitGroup PROVE TimeInv' /\ Ends(jos, jos')
  <2>1. Quiet(jos) /\ Ends(jos, jos) /\ Stop(jos, "exited", "group")
    BY <1>2, ElapsesSelf, ElapsesEnds DEF SysExitGroup, TimeInv, Steady, IInv
  <2> QED
    BY <2>1, StopTime
<1> QED
  BY <1>1, <1>2, WakeEpollTime, SysTgkillTime, SysSchedYieldTime,
     SysSetTidAddressTime, SysCloneTime, SysExitTime DEF OtherCall

\* Every step keeps TimeInv, and says how it ended waits.
LEMMA NextTime ==
  ASSUME IInv, TimeInv, Next
  PROVE  TimeInv' /\ (Ends(jos, jos') \/ Interrupts(jos, jos'))
<1>1. PICK step \in Steps :
        \/ OtherCall(step)
        \/ \E tick \in Ticks, W \in Looks :
             BlockingCall(step, tick, W) \/ Quantum(step, tick, W) \/ ExpireBudget(tick, W)
  BY DEF Next
<1>2. run = "running" /\ step \in Nat /\ Ticks \subseteq Nat /\ ChaosLens \subseteq Nat
  BY SchedAssumption DEF Next
<1>3. CASE OtherCall(step)
  BY <1>2, <1>3, OtherCallTime
<1>4. ASSUME NEW tick \in Ticks, NEW W, BlockingCall(step, tick, W)
      PROVE  TimeInv' /\ Ends(jos, jos')
  BY <1>2, <1>4, BlockingCallTime
<1>5. ASSUME NEW tick \in Ticks, NEW W, Quantum(step, tick, W)
      PROVE  TimeInv' /\ Ends(jos, jos')
  BY <1>2, <1>5, ExpireSchedulerQuantumTime DEF Quantum
<1>6. ASSUME NEW tick \in Ticks, NEW W, ExpireBudget(tick, W)
      PROVE  TimeInv' /\ Ends(jos, jos')
  BY <1>2, <1>6, ExpireBudgetTime
<1> QED
  BY <1>1, <1>3, <1>4, <1>5, <1>6

\* TimeInv always holds, beside the invariant of Jea9SchedProofs.
LEMMA TimeInductive == Spec => []TimeInv
<1>1. Init => TimeInv
  BY InitTime
<1>2. IInv /\ TimeInv /\ [Next]_vars => TimeInv'
  <2>1. ASSUME TimeInv, UNCHANGED vars PROVE TimeInv'
    BY <2>1 DEF vars, TimeInv, Quiet, WithinBudget, Prompt, TimedWaiting, Waiting
  <2> QED
    BY <2>1, NextTime
<1> QED
  BY <1>1, <1>2, Inductive, PTL DEF Spec

\* refreshBlocked follows every advance of the clock: whenever guest code runs,
\* every wait whose deadline the clock has reached has been ended.
THEOREM NeverOverdue == Spec => []NoOverdueWaiter
<1>1. TimeInv => NoOverdueWaiter
  BY DEF TimeInv, NoOverdueWaiter, Prompt
<1> QED
  BY <1>1, TimeInductive, PTL

\* Whatever durations are drawn and whenever a window opens or closes,
\* starvation stays within ChaosNum / ChaosDen of the elapsed virtual time.
THEOREM ChaosAlwaysWithinBudget == Spec => []ChaosWithinBudget
<1>1. TimeInv => ChaosWithinBudget
  BY DEF TimeInv, Quiet, WithinBudget, ChaosWithinBudget
<1> QED
  BY <1>1, TimeInductive, PTL

\* No path through clock jumps, slices, wakes and signals reports a timeout
\* before its deadline or ends a sleep early.
THEOREM NeverEarlyTimeout == Spec => NoEarlyTimeout
<1> DEFINE early(t) ==
      LET slept == jos.kind[t] = "nanosleep" /\ (jos'.ret[t] = "0" \/ jos'.cur = t)
      IN  t \in Runnable(jos)' /\ (jos'.ret[t] = "ETIMEDOUT" \/ slept)
            => jos.dl[t] <= jos'.now
<1>1. ASSUME IInv, TimeInv, Next, NEW t \in TimedWaiting(jos) PROVE early(t)
  <2>1. t \in Waiting(jos) /\ jos.dl[t] # NoDeadline
    BY DEF TimedWaiting
  <2>2. t \in Runnable(jos)' => jos'.state[t] # "waiting"
    BY DEF Runnable
  <2>3. Ends(jos, jos') \/ Interrupts(jos, jos')
    BY <1>1, NextTime
  <2> QED
    BY <2>1, <2>2, <2>3 DEF Ends, Interrupts, Over
<1>2. IInv /\ TimeInv /\ [Next]_vars => [\A t \in TimedWaiting(jos) : early(t)]_vars
  BY <1>1
<1>3. IInv /\ TimeInv /\ [Next]_vars =>
        [\A t \in TimedWaiting(jos) :
           LET slept == jos.kind[t] = "nanosleep" /\ (jos'.ret[t] = "0" \/ jos'.cur = t)
           IN  t \in Runnable(jos)' /\ (jos'.ret[t] = "ETIMEDOUT" \/ slept)
                 => jos.dl[t] <= jos'.now]_vars
  BY <1>2
<1> QED
  BY <1>3, Inductive, TimeInductive, PTL DEF Spec, NoEarlyTimeout

\* Futex wake-ups are first come first served, across wakes, exits with
\* clear_child_tid, timeouts and signals.
THEOREM AlwaysInArrivalOrder == Spec => WakeInArrivalOrder
<1> DEFINE ordered(a, i, k) ==
      LET t == jos.waiters[a][i]
          u == jos.waiters[a][k]
      IN  i < k /\ t \in Waiting(jos)' /\ u \in Runnable(jos)'
          /\ (jos'.ret[u] # "none" \/ jos'.cur = u)
            => jos.dl[u] # NoDeadline /\ jos.dl[u] <= jos'.now
<1>1. ASSUME IInv, TimeInv, Next, NEW a \in Addrs,
             NEW i \in DOMAIN jos.waiters[a], NEW k \in DOMAIN jos.waiters[a]
      PROVE  ordered(a, i, k)
  <2> DEFINE t == jos.waiters[a][i]
             u == jos.waiters[a][k]
  <2>1. u \in Tid
    BY <1>1 DEF IInv, KernelInv, KernelType
  <2>2. Occurs(u, jos.waiters[a])
    BY DEF Occurs
  <2>3. u \in Waiting(jos) /\ jos.kind[u] = "futex"
    BY <1>1, <2>1, <2>2, Zenon DEF IInv, KernelInv, QueuesExact, Waiting
  <2>4. Ends(jos, jos') \/ Interrupts(jos, jos')
    BY <1>1, NextTime
  <2>5. i < k /\ FirstCome(jos, jos', u) => jos'.state[t] # "waiting"
    BY DEF FirstCome
  <2>6. /\ t \in Waiting(jos)' => jos'.state[t] = "waiting"
        /\ u \in Runnable(jos)' => jos'.state[u] # "waiting"
    BY Zenon DEF Waiting, Runnable
  <2> HIDE DEF t, u
  <2>7. i < k /\ t \in Waiting(jos)' /\ u \in Runnable(jos)'
          /\ (jos'.ret[u] # "none" \/ jos'.cur = u)
            => jos.dl[u] # NoDeadline /\ jos.dl[u] <= jos'.now
    BY <2>3, <2>4, <2>5, <2>6 DEF Ends, Interrupts, Over
  <2> QED
    BY Zenon, <2>7 DEF t, u
<1>2. IInv /\ TimeInv /\ [Next]_vars =>
        [\A a \in Addrs : \A i, k \in DOMAIN jos.waiters[a] : ordered(a, i, k)]_vars
  BY ZenonT(60), <1>1
<1>3. IInv /\ TimeInv /\ [Next]_vars =>
        [\A a \in Addrs : \A i, k \in DOMAIN jos.waiters[a] :
           LET t == jos.waiters[a][i]
               u == jos.waiters[a][k]
           IN  i < k /\ t \in Waiting(jos)' /\ u \in Runnable(jos)'
               /\ (jos'.ret[u] # "none" \/ jos'.cur = u)
                 => jos.dl[u] # NoDeadline /\ jos.dl[u] <= jos'.now]_vars
  BY Zenon, <1>2
<1> QED
  BY <1>3, Inductive, TimeInductive, PTL DEF Spec, WakeInArrivalOrder
=============================================================================
