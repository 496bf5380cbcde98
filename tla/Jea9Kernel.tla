------------------------------ MODULE Jea9Kernel ------------------------------
(***************************************************************************)
(* The scheduler core of the Jea9Linux personality (jea9linux.go): guest   *)
(* thread contexts, futex wait queues, the deterministic virtual clock,    *)
(* and the starvation windows of the chaos scheduler.                      *)
(*                                                                         *)
(* Every Go method of *Jea9Linux that other methods call is an operator    *)
(* from one kernel state j to the next; a value the code draws from the    *)
(* seeded scheduler PRNG is a parameter of the operator.  The module has   *)
(* no variables: Jea9Sched composes the operators into system-call actions.*)
(* Operators named Dev_... are deviations from the code that the           *)
(* properties are known to reject; no specification uses them.             *)
(***************************************************************************)
EXTENDS Integers, Sequences, FiniteSets

CONSTANTS
    NThreads,     \* how many contexts a run may create; tids are 1..NThreads
    Addrs,        \* futex words the guest waits on
    NoAddr,       \* "no address"
    ClockPolicy,  \* "OnlyDeadlock", "Chaos", "PRNG" or "Fixed"
    Mode,         \* scheduler mode: "RoundRobin", "DST", "Chaos", "Deadlock"
    ChaosNum, ChaosDen  \* ChaosBudgetNumerator / ChaosBudgetDenominator

ASSUME NThreadsAssumption == NThreads \in Nat \ {0}
ASSUME NoAddrAssumption == NoAddr \notin Addrs
ASSUME PolicyAssumption ==
    /\ ClockPolicy \in {"OnlyDeadlock", "Chaos", "PRNG", "Fixed"}
    /\ Mode \in {"RoundRobin", "DST", "Chaos", "Deadlock"}
    /\ (ClockPolicy = "Chaos") <=> (Mode = "Chaos")  \* normalizeClockPolicyChaos
ASSUME ChaosAssumption == ChaosNum \in Nat /\ ChaosDen \in Nat \ {0}

Tid == 1..NThreads
Pid == 1                     \* tid of the main thread, contextOrder[0]
NoDeadline == -1             \* waitHasDeadline = false
TimedKinds == {"futex", "epoll", "nanosleep"}

(***************************************************************************)
(* The fields of jos that the scheduler reads or writes.  contextOrder is  *)
(* append only and holds the tids in creation order, so it is 1..n.  ret   *)
(* is the a0 slot of a saved snapshot: what a woken wait will return.      *)
(***************************************************************************)
KernelType ==
    [ n          : Tid,
      cur        : Tid,
      state      : [Tid -> {"unborn", "runnable", "waiting", "exited"}],
      prio       : [Tid -> {"high", "low"}],
      kind       : [Tid -> TimedKinds \cup {"none"}],
      addr       : [Tid -> Addrs \cup {NoAddr}],
      dl         : [Tid -> Nat \cup {NoDeadline}],
      clear      : [Tid -> Addrs \cup {NoAddr}],
      ret        : [Tid -> {"none", "0", "ETIMEDOUT"}],
      waiters    : [Addrs -> Seq(Tid)],
      timed      : [TimedKinds -> Nat],
      now        : Nat,
      blocked    : BOOLEAN,
      until      : Nat \cup {NoDeadline},
      chaosOn    : BOOLEAN,
      chaosStart : Nat,
      chaosUntil : Nat,
      chaosSpent : Nat ]

KernelInit(start) ==
    [ n |-> 1, cur |-> Pid,
      state |-> [t \in Tid |-> IF t = Pid THEN "runnable" ELSE "unborn"],
      prio |-> [t \in Tid |-> "high"],
      kind |-> [t \in Tid |-> "none"],
      addr |-> [t \in Tid |-> NoAddr],
      dl |-> [t \in Tid |-> NoDeadline],
      clear |-> [t \in Tid |-> NoAddr],
      ret |-> [t \in Tid |-> "none"],
      waiters |-> [a \in Addrs |-> << >>],
      timed |-> [k \in TimedKinds |-> 0],
      now |-> start, blocked |-> FALSE, until |-> NoDeadline,
      chaosOn |-> FALSE, chaosStart |-> 0, chaosUntil |-> 0, chaosSpent |-> 0 ]

-----------------------------------------------------------------------------
(* Sets the code reaches by scanning the contexts. *)

Runnable(j) == {t \in Tid : j.state[t] = "runnable"}

Waiting(j) == {t \in Tid : j.state[t] = "waiting"}

TimedWaiting(j) == {t \in Waiting(j) : j.dl[t] # NoDeadline}

EpollWaiting(j) == {t \in Waiting(j) : j.kind[t] = "epoll"}

TimedOfKind(j, k) == {t \in TimedWaiting(j) : j.kind[t] = k}

\* The contexts the policy may choose: a starvation window hides the low ones.
Eligible(j) == {t \in Runnable(j) : ~(j.chaosOn /\ j.prio[t] = "low")}

MinOf(S) == CHOOSE x \in S : \A y \in S : x <= y

\* q without the members of E, in order.
Without(q, E) ==
    LET kept == {i \in DOMAIN q : q[i] \notin E}
        rank(i) == Cardinality({h \in kept : h <= i})
    IN  [k \in 1..Cardinality(kept) |->
            q[CHOOSE i \in kept : rank(i) = k]]

-----------------------------------------------------------------------------
(* Waking and unwaiting contexts. *)

\* Deviation: the counters are not charged at all.
Dev_ClearKeepsCounters(j, W) ==
    [j EXCEPT
      !.kind  = [t \in Tid |-> IF t \in W THEN "none" ELSE @[t]],
      !.addr  = [t \in Tid |-> IF t \in W THEN NoAddr ELSE @[t]],
      !.dl    = [t \in Tid |-> IF t \in W THEN NoDeadline ELSE @[t]]]

\* clearContextWaitFields for every context of W: each timed one takes its
\* unit out of the timed-waiter counter of its kind, which stops at zero.
ClearContextWaitFields(j, W) ==
    LET left(k) == j.timed[k] -
                   Cardinality({t \in W : j.dl[t] # NoDeadline /\ j.kind[t] = k})
    IN  [j EXCEPT
          !.timed = [k \in TimedKinds |-> IF left(k) < 0 THEN 0 ELSE left(k)],
          !.kind  = [t \in Tid |-> IF t \in W THEN "none" ELSE @[t]],
          !.addr  = [t \in Tid |-> IF t \in W THEN NoAddr ELSE @[t]],
          !.dl    = [t \in Tid |-> IF t \in W THEN NoDeadline ELSE @[t]]]

\* markRunnable for every context of W.
MarkRunnable(j, W, r) ==
    LET live == {t \in W : j.state[t] # "exited"}
    IN  ClearContextWaitFields(
          [j EXCEPT
            !.state = [t \in Tid |-> IF t \in live THEN "runnable" ELSE @[t]],
            !.ret   = [t \in Tid |-> IF t \in live THEN r ELSE @[t]]], live)

RemoveFutexWaiters(j, W) ==
    [j EXCEPT !.waiters = [a \in Addrs |-> Without(@[a], W)]]

CancelContextWait(j, t) ==
    ClearContextWaitFields(
      IF j.kind[t] = "futex" THEN RemoveFutexWaiters(j, {t}) ELSE j, {t})

\* deliverSignal, seen by the scheduler: the context leaves its wait for the
\* signal handler; the interrupted call's a0 stays what it was.
InterruptWait(j, t) == [CancelContextWait(j, t) EXCEPT !.state[t] = "runnable"]

\* Deviation: the latest waiters are woken.
Dev_WakeNewest(j, a, limit) ==
    LET q == j.waiters[a]
        m == IF limit < Len(q) THEN limit ELSE Len(q)
    IN  MarkRunnable([j EXCEPT !.waiters[a] = SubSeq(q, 1, Len(q) - m)],
                     {q[i] : i \in (Len(q) - m + 1)..Len(q)}, "0")

\* The guest is no longer blocked if over holds.
UnblockIf(j, over) ==
    IF over THEN [j EXCEPT !.blocked = FALSE, !.until = NoDeadline] ELSE j

UnblockIfRunnable(j, woke) == UnblockIf(j, woke /\ Runnable(j) # {})

\* wakeFutex: the first limit waiters in arrival order become runnable.
WakeFutex(j, a, limit) ==
    LET q == j.waiters[a]
        m == IF limit < Len(q) THEN limit ELSE Len(q)
    IN  UnblockIfRunnable(
          MarkRunnable([j EXCEPT !.waiters[a] = SubSeq(q, m + 1, Len(q))],
                       {q[i] : i \in 1..m}, "0"),
          m > 0)

\* Deviation: a timed-out futex waiter stays in its queue.
Dev_TimeoutKeepsQueued(j, k) ==
    LET expired == {t \in TimedOfKind(j, k) : j.dl[t] <= j.now}
    IN  MarkRunnable(j, expired, IF k = "futex" THEN "ETIMEDOUT" ELSE "0")

\* Deviation: waits expire one nanosecond early.
Dev_TimeoutEarly(j, k) ==
    LET expired == {t \in TimedOfKind(j, k) : j.dl[t] <= j.now + 1}
    IN  MarkRunnable(RemoveFutexWaiters(j, expired), expired,
                     IF k = "futex" THEN "ETIMEDOUT" ELSE "0")

\* refreshFutexTimeouts, refreshEpollTimeouts, refreshNanosleepTimeouts: the
\* scan is skipped when the counter of the kind says nobody waits with a
\* deadline.
RefreshTimeouts(j, k) ==
    LET expired == {t \in TimedOfKind(j, k) : j.dl[t] <= j.now}
    IN  IF j.timed[k] = 0 THEN j
        ELSE IF k = "futex"
             THEN MarkRunnable(RemoveFutexWaiters(j, expired), expired, "ETIMEDOUT")
             ELSE MarkRunnable(j, expired, "0")

UnblockIfOver(j) ==
    UnblockIf(j, /\ j.blocked
                 /\ \/ Runnable(j) # {}
                    \/ j.until # NoDeadline /\ j.now >= j.until)

RefreshBlocked(j) ==
    UnblockIfOver(
      RefreshTimeouts(RefreshTimeouts(RefreshTimeouts(j, "futex"), "epoll"),
                      "nanosleep"))

-----------------------------------------------------------------------------
(* Starvation windows of the chaos scheduler. *)

RefreshChaosWindow(j) ==
    IF ~j.chaosOn \/ j.now < j.chaosUntil THEN j
    ELSE [j EXCEPT !.chaosSpent = @ + (j.chaosUntil - j.chaosStart),
                   !.chaosOn = FALSE, !.chaosStart = 0, !.chaosUntil = 0]

RemainingChaosBudgetNS(j) ==
    ((j.now * ChaosNum) \div ChaosDen) - j.chaosSpent

\* Deviation: the drawn duration is not truncated to the remaining budget.
Dev_WindowNotTruncated(j, dur) ==
    LET j1 == RefreshChaosWindow(j)
    IN  IF dur <= 0 \/ Mode # "Chaos" \/ j1.chaosOn \/ RemainingChaosBudgetNS(j1) <= 0
        THEN j1
        ELSE [j1 EXCEPT !.chaosOn = TRUE, !.chaosStart = j1.now,
                        !.chaosUntil = j1.now + dur]

OpenChaosWindow(j, dur) ==
    LET left == RemainingChaosBudgetNS(j)
        len  == IF dur > left THEN left ELSE dur
    IN  IF dur <= 0 \/ Mode # "Chaos" \/ j.chaosOn \/ left <= 0 THEN j
        ELSE [j EXCEPT !.chaosOn = TRUE, !.chaosStart = j.now,
                       !.chaosUntil = j.now + len]

\* startChaosWindow; dur is the drawn duration, 0 when the draw of
\* maybeStartChaosWindow decides against a window.
StartChaosWindow(j, dur) == OpenChaosWindow(RefreshChaosWindow(j), dur)

-----------------------------------------------------------------------------
(* Choosing and loading a context. *)

\* firstRunnableByPolicy, after its refreshChaosWindow: lowest in contextOrder.
FirstRunnableByPolicy(j) == MinOf(Eligible(j))

\* nextRunnableByPolicyAfterCurrent: round robin after currentTID, which is
\* itself never chosen.
OthersEligible(j) == Eligible(j) \ {j.cur}

\* Deviation: the scan starts at the head of contextOrder every time.
Dev_LowestFirst(j) == MinOf(OthersEligible(j))

NextRunnableByPolicyAfterCurrent(j) ==
    LET distance(t) == IF t > j.cur THEN t - j.cur ELSE t + j.n - j.cur
    IN  CHOOSE t \in OthersEligible(j) :
            \A u \in OthersEligible(j) : distance(t) <= distance(u)

\* loadContext: from here on the guest owns the returned a0.
LoadContext(j, t) == [j EXCEPT !.cur = t, !.ret[t] = "none"]

LoadAndUnblock(j, t) ==
    [LoadContext(j, t) EXCEPT !.blocked = FALSE, !.until = NoDeadline]

-----------------------------------------------------------------------------
(* The virtual clock.  step is the PRNG or fixed advance of this call. *)

WaitDeadlines(j) == {j.dl[t] : t \in TimedWaiting(j)}

\* Deviation: the clock moves without waking the waits it expires.
Dev_AdvanceWithoutRefresh(j, deadline, step) ==
    IF deadline <= j.now THEN j ELSE [j EXCEPT !.now = deadline]

AdvanceVirtualClockTowardDeadline(j, deadline, step) ==
    LET target == IF /\ j.chaosOn
                     /\ j.chaosUntil > j.now
                     /\ j.chaosUntil < deadline
                  THEN j.chaosUntil ELSE deadline
        gap    == target - j.now
        delta  == IF ClockPolicy \in {"PRNG", "Fixed"} /\ step < gap
                  THEN step ELSE gap
    IN  IF deadline <= j.now THEN j
        ELSE RefreshBlocked(RefreshChaosWindow([j EXCEPT !.now = @ + delta]))

\* advanceVirtualClockForSchedulerEvent with a clock that jumps when idle.
JumpIfIdle(j) ==
    LET \* hasRunnableClockCandidate
        candidate == IF ClockPolicy = "Chaos" THEN Eligible(j) # {}
                                              ELSE Runnable(j) # {}
        dl == MinOf(WaitDeadlines(j))
    IN  IF candidate \/ WaitDeadlines(j) = {} THEN j
        ELSE RefreshBlocked([j EXCEPT !.now = IF dl > @ THEN dl ELSE @])

AdvanceVirtualClockForSchedulerEvent(j, step) ==
    IF ClockPolicy \in {"PRNG", "Fixed"}
    THEN RefreshBlocked([j EXCEPT !.now = @ + step])
    ELSE JumpIfIdle(IF ClockPolicy = "Chaos" THEN RefreshChaosWindow(j) ELSE j)

\* Deviation: the clock goes to the last pending deadline.
Dev_AdvanceToLast(j, step) ==
    IF WaitDeadlines(j) = {} THEN j
    ELSE AdvanceVirtualClockTowardDeadline(
           j, CHOOSE d \in WaitDeadlines(j) : \A e \in WaitDeadlines(j) : d >= e, step)

\* advanceVirtualClockWhenNoRunnableCandidate: towards the earliest deadline
\* or the end of the starvation window, whichever is first.
AdvanceVirtualClockWhenNoRunnableCandidate(j, step) ==
    LET goals == WaitDeadlines(j) \cup
                 (IF j.chaosOn /\ j.chaosUntil > j.now THEN {j.chaosUntil} ELSE {})
    IN  IF goals # {}
        THEN AdvanceVirtualClockTowardDeadline(j, MinOf(goals), step)
        ELSE IF ClockPolicy \in {"PRNG", "Fixed"}
             THEN AdvanceVirtualClockForSchedulerEvent(j, step)
             ELSE j

-----------------------------------------------------------------------------
(* Blocking the current context. *)

BeginWait(j, k, a, deadline) ==
    LET t  == j.cur
        j1 == [j EXCEPT !.kind[t] = k, !.addr[t] = a, !.dl[t] = deadline,
                        !.timed[k] = @ + (IF deadline = NoDeadline THEN 0 ELSE 1)]
    IN  IF a = NoAddr THEN j1
        ELSE [j1 EXCEPT !.waiters[a] = Append(@, t)]

\* The common tail of futexWait, sysEpollPwait, sysNanosleep and sysPselect6.
EnterWait(j, k, a, deadline) ==
    BeginWait(ClearContextWaitFields([j EXCEPT !.state[j.cur] = "waiting"], {j.cur}),
              k, a, deadline)

\* Deviation: gives up at once instead of advancing the clock.
Dev_NoAdvanceWhenBlocked(j, step) ==
    LET j1 == RefreshChaosWindow(j)
    IN  IF OthersEligible(j1) # {}
        THEN LoadAndUnblock(j1, NextRunnableByPolicyAfterCurrent(j1))
        ELSE [j1 EXCEPT !.blocked = TRUE]

\* Nothing to run until the next deadline, if there is one.
BlockUntilDeadline(j) ==
    [j EXCEPT !.blocked = TRUE,
              !.until = IF WaitDeadlines(j) = {} THEN NoDeadline
                        ELSE MinOf(WaitDeadlines(j))]

LoadFirstOrBlock(j) ==
    IF Eligible(j) # {} THEN LoadAndUnblock(j, FirstRunnableByPolicy(j)) ELSE BlockUntilDeadline(j)

LoadNextOrBlock(j, step) ==
    IF OthersEligible(j) # {}
    THEN LoadAndUnblock(j, NextRunnableByPolicyAfterCurrent(j))
    ELSE IF WaitDeadlines(j) = {} THEN BlockUntilDeadline(j)
    ELSE LoadFirstOrBlock(
           RefreshChaosWindow(AdvanceVirtualClockWhenNoRunnableCandidate(j, step)))

\* scheduleAfterCurrentBlocked (Hermit time).  The result is blocked exactly
\* when the code returns NoteExit.
ScheduleAfterCurrentBlocked(j, step) == LoadNextOrBlock(RefreshChaosWindow(j), step)

-----------------------------------------------------------------------------
(* What the kernel operators maintain. *)

Occurs(t, q) == \E i \in DOMAIN q : q[i] = t

QueuesExact(j) ==
    \A a \in Addrs :
      /\ \A t \in Tid : Occurs(t, j.waiters[a]) <=>
             (j.state[t] = "waiting" /\ j.kind[t] = "futex" /\ j.addr[t] = a)
      /\ \A i, k \in DOMAIN j.waiters[a] :
             j.waiters[a][i] = j.waiters[a][k] => i = k

CountersExact(j) ==
    \A k \in TimedKinds : j.timed[k] = Cardinality(TimedOfKind(j, k))

\* The rest of what the two need: contexts exist in creation order, and the
\* wait fields are set exactly while a context waits.
WaitFieldsExact(j) ==
    \A t \in Tid :
      /\ j.state[t] = "unborn" <=> t > j.n
      /\ j.state[t] # "waiting" =>
             j.kind[t] = "none" /\ j.addr[t] = NoAddr /\ j.dl[t] = NoDeadline
      /\ j.state[t] = "waiting" =>
             j.kind[t] # "none" /\ (j.kind[t] = "futex" <=> j.addr[t] # NoAddr)

KernelInv(j) ==
    /\ j \in KernelType
    /\ QueuesExact(j) /\ CountersExact(j) /\ WaitFieldsExact(j)
    /\ j.chaosStart <= j.chaosUntil
=============================================================================
