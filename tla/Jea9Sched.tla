------------------------------- MODULE Jea9Sched -------------------------------
(***************************************************************************)
(* The Jea9Linux scheduler as a state machine: one action per system call  *)
(* that can block, wake, create or end a guest thread, and one per way the *)
(* run loop (Run, RunJIT) regains control.  The emulator is one goroutine  *)
(* on one hart, so a system call is atomic: the whole of Handle together   *)
(* with what the run loop does with its disposition.  Time is Hermit.      *)
(*                                                                         *)
(* The paths of a system call that only set the guest's a0 (EINVAL,        *)
(* EFAULT, EAGAIN, a wait whose deadline has passed) leave jos alone and   *)
(* are stuttering steps.                                                   *)
(***************************************************************************)
EXTENDS Jea9Kernel

CONSTANTS
    Engine,       \* "interp" (Run) or "jit" (RunJIT)
    StartNS,      \* MonotonicStartNS
    Timeouts,     \* relative timeouts a guest may ask for
    Calls,        \* which of OptionalCalls the guest makes
    TimedCalls,   \* which of its waits it makes with a timeout
    Steps,        \* advances of the PRNG or fixed clock; {0} for the others
    Ticks,        \* clock added for executed instructions (ICTick); else {0}
    ChaosLens,    \* window durations drawn; {0} outside chaos
    MaxNow        \* bound on the virtual clock

OptionalCalls == {"futex", "epoll", "pselect", "yield", "set_tid_address", "tgkill"}

ASSUME SchedAssumption ==
    /\ Engine \in {"interp", "jit"}
    /\ StartNS \in Nat /\ MaxNow \in Nat
    /\ Timeouts \subseteq Nat \ {0}
    /\ Calls \subseteq OptionalCalls
    /\ TimedCalls \subseteq Calls \cap {"futex", "epoll", "pselect"}
    /\ Steps \subseteq Nat /\ Ticks \subseteq Nat /\ ChaosLens \subseteq Nat

VARIABLES
    jos,   \* the kernel state
    run,   \* "running", "blocked" (ErrJea9LinuxBlocked) or "exited" (ExitError)
    why    \* which NoteExit ended the run

vars == <<jos, run, why>>

Init ==
    /\ jos = KernelInit(StartNS)
    /\ run = "running"
    /\ why = "none"

-----------------------------------------------------------------------------
(* What the run loop does when a handler has returned. *)

Continue(j) ==
    /\ j.now <= MaxNow
    /\ jos' = j
    /\ UNCHANGED <<run, why>>

Stop(j, outcome, reason) ==
    /\ jos' = j
    /\ run' = outcome
    /\ why' = reason

\* refreshEpollReadiness: the run loop looks at the descriptors of every epoll
\* waiter, and W are those it wakes.  Which they are is for the descriptors to
\* say (Jea9Events); here any of the waiters may be.
RefreshEpollReadiness(j, W) == MarkRunnable(j, W, "0")

\* What a call passes for W when the run loop does not come to look.
NoLook == {0}

\* Deviation: Run resumes without loading the context that became runnable.
Dev_RunResumesBlocked(j, tick, W) ==
    Continue([RefreshBlocked([j EXCEPT !.now = @ + tick]) EXCEPT !.blocked = FALSE])

ResumeOrStop(j) ==
    /\ j.now <= MaxNow
    /\ \/ /\ Eligible(j) # {}
          /\ Continue(LoadAndUnblock(j, FirstRunnableByPolicy(j)))
       \/ /\ Eligible(j) = {} /\ j.blocked
          /\ Stop(j, "blocked", "none")
       \/ /\ Eligible(j) = {} /\ ~j.blocked
          /\ Stop(j, "exited", "blocked")

\* Deviation: the end of a slice does not look at epoll waiters.
Dev_EndSliceBlind(j, tick, W) == RefreshBlocked([j EXCEPT !.now = @ + tick])

\* The end of a slice: the clock is charged for it (accountInsAttempts), epoll
\* waits with a ready descriptor and then expired waits are ended.
EndSlice(j, tick, W) ==
    RefreshBlocked(RefreshEpollReadiness([j EXCEPT !.now = @ + tick], W))

\* Run: NoteExit with jos.blocked set means the guest is blocked.  The first
\* runnable context is loaded if there is one.
RunAfterBlocked(j, tick, W) ==
    /\ W \subseteq EpollWaiting(j)
    /\ ResumeOrStop(RefreshChaosWindow(EndSlice(j, tick, W)))

\* RunJIT delivers the note after its blocked check and turns every NoteExit
\* into an ExitError.
RunJITAfterBlocked(j) == Stop(j, "exited", "blocked")

AfterHandle(j, tick, W) ==
    \/ ~j.blocked /\ W = NoLook /\ Continue(j)
    \/ j.blocked /\ Engine = "interp" /\ RunAfterBlocked(j, tick, W)
    \/ j.blocked /\ Engine = "jit" /\ W = NoLook /\ RunJITAfterBlocked(j)

-----------------------------------------------------------------------------
(* System calls of the current context. *)

\* A wait that first lets the clock run to its own deadline when no other
\* context can run: sysFutex, sysEpollPwait, sysPselect6.
Block(j, kind, a, deadline, step, tick, W) ==
    AfterHandle(ScheduleAfterCurrentBlocked(EnterWait(j, kind, a, deadline), step), tick, W)

AdvanceIfAlone(j, deadline, step) ==
    IF OthersEligible(j) # {} THEN j
    ELSE AdvanceVirtualClockTowardDeadline(j, deadline, step)

\* A wait that has not reached its deadline, or that others could still end.
BlockUnlessOver(j, kind, a, deadline, step, tick, W) ==
    \/ j.now >= deadline /\ W = NoLook /\ Continue(j)
    \/ j.now < deadline /\ Block(j, kind, a, deadline, step, tick, W)

TimedWait(kind, a, timeout, step, tick, W) ==
    /\ jos.now + timeout <= MaxNow
    /\ BlockUnlessOver(AdvanceIfAlone(RefreshChaosWindow(jos), jos.now + timeout, step),
                       kind, a, jos.now + timeout, step, tick, W)

UntimedWait(kind, a, step, tick, W) == Block(jos, kind, a, NoDeadline, step, tick, W)

SysFutexWait(a, step, tick, W) ==
    \/ UntimedWait("futex", a, step, tick, W)
    \/ "futex" \in TimedCalls
       /\ \E d \in Timeouts : TimedWait("futex", a, d, step, tick, W)

SysEpollPwait(step, tick, W) ==
    \/ UntimedWait("epoll", NoAddr, step, tick, W)
    \/ "epoll" \in TimedCalls
       /\ \E d \in Timeouts : TimedWait("epoll", NoAddr, d, step, tick, W)

SysPselect6(step, tick, W) ==
    /\ "pselect" \in TimedCalls
    /\ \E d \in Timeouts : TimedWait("nanosleep", NoAddr, d, step, tick, W)

SysNanosleep(d, step, tick, W) ==
    /\ jos.now + d <= MaxNow
    /\ Block(jos, "nanosleep", NoAddr, jos.now + d, step, tick, W)

SysFutexWake(a, limit) == Continue(WakeFutex(jos, a, limit))

\* wakeEpollWaitersForFD from a write to a descriptor: the epoll waiters that
\* have it registered and find it ready.
WakeEpollWaitersForFD(W) ==
    /\ W # {} /\ W \subseteq EpollWaiting(jos)
    /\ Continue(MarkRunnable(jos, W, "0"))

\* tgkill, tkill: a signal with a handler, not blocked by its target, ends the
\* wait of the target.
SysTgkill(t) ==
    /\ t \in Waiting(jos)
    /\ Continue(InterruptWait(jos, t))

LoadNext(j) ==
    IF OthersEligible(j) = {} THEN j
    ELSE LoadContext(j, NextRunnableByPolicyAfterCurrent(j))

SysSchedYield(step) ==
    Continue(LoadNext(
      RefreshChaosWindow(AdvanceVirtualClockForSchedulerEvent(jos, step))))

\* sysClone; a is the CLONE_CHILD_CLEARTID address.
SysClone(a) ==
    LET t == jos.n + 1
    IN  /\ jos.n < NThreads
        /\ Continue([jos EXCEPT !.n = t, !.state[t] = "runnable", !.clear[t] = a])

SysSetTidAddress(a) == Continue([jos EXCEPT !.clear[jos.cur] = a])

\* exitCurrentThread: the futex at clear_child_tid is woken once.
ExitCurrentThread(j) ==
    LET t  == j.cur
        j1 == [CancelContextWait(j, t) EXCEPT !.state[t] = "exited"]
    IN  IF j.clear[t] = NoAddr THEN j1 ELSE WakeFutex(j1, j.clear[t], 1)

LoadNextOrEnd(j) ==
    \/ OthersEligible(j) # {} /\ Continue(LoadNext(j))
    \/ OthersEligible(j) = {} /\ Stop(j, "exited", "last")

SysExit ==
    \/ jos.cur = Pid /\ Stop(jos, "exited", "main")
    \/ jos.cur # Pid /\ LoadNextOrEnd(RefreshChaosWindow(ExitCurrentThread(jos)))

SysExitGroup == Stop(jos, "exited", "group")

-----------------------------------------------------------------------------
(* The run loop regains control: a quantum or a host poll budget expires. *)

\* maybeReshuffleSchedulerPriorities; low is the set the draws make low.
Reshuffle(j, low) ==
    [j EXCEPT !.prio =
        [t \in Tid |-> IF j.state[t] \in {"unborn", "exited"} THEN @[t]
                       ELSE IF t \in low THEN "low" ELSE "high"]]

StayRunnable(j) == [j EXCEPT !.state[j.cur] = "runnable"]

LoadNextIfMoved(j, before) == IF j.now = before THEN j ELSE LoadNext(j)

LoadNextOrAdvance(j, step) ==
    IF OthersEligible(j) # {} THEN LoadNext(j)
    ELSE LoadNextIfMoved(
           RefreshChaosWindow(AdvanceVirtualClockWhenNoRunnableCandidate(j, step)), j.now)

ReshuffleIf(reshuffled, j, low) == IF reshuffled THEN Reshuffle(j, low) ELSE j

ExpireSchedulerQuantum(reshuffled, low, len, step, tick, W) ==
    /\ Mode # "Deadlock"
    /\ W \subseteq EpollWaiting(jos)
    /\ reshuffled => Mode \in {"DST", "Chaos"}
    /\ Continue(LoadNextOrAdvance(
         RefreshChaosWindow(StartChaosWindow(
           ReshuffleIf(reshuffled, StayRunnable(EndSlice(jos, tick, W)), low),
           len)),
         step))

ExpireBudget(tick, W) ==
    /\ W \subseteq EpollWaiting(jos)
    /\ Continue(StayRunnable(EndSlice(jos, tick, W)))

-----------------------------------------------------------------------------
Quantum(step, tick, W) ==
    \E reshuffled \in BOOLEAN, len \in ChaosLens :
      \E low \in (IF reshuffled THEN SUBSET Tid ELSE {{}}) :
        ExpireSchedulerQuantum(reshuffled, low, len, step, tick, W)

\* Calls that may block: the run loop looks when nothing else can run.
BlockingCall(step, tick, W) ==
    \/ "futex" \in Calls /\ \E a \in Addrs : SysFutexWait(a, step, tick, W)
    \/ "epoll" \in Calls /\ SysEpollPwait(step, tick, W)
    \/ "pselect" \in Calls /\ SysPselect6(step, tick, W)
    \/ \E d \in Timeouts : SysNanosleep(d, step, tick, W)

OtherCall(step) ==
    \/ "futex" \in Calls /\ \E a \in Addrs, limit \in 1..2 : SysFutexWake(a, limit)
    \/ "epoll" \in Calls /\ \E W \in SUBSET Tid : WakeEpollWaitersForFD(W)
    \/ "tgkill" \in Calls /\ \E t \in Tid : SysTgkill(t)
    \/ "yield" \in Calls /\ SysSchedYield(step)
    \/ "set_tid_address" \in Calls /\ \E a \in Addrs : SysSetTidAddress(a)
    \/ \E a \in Addrs \cup {NoAddr} : SysClone(a)
    \/ SysExit
    \/ SysExitGroup

\* What the run loop may find when it looks; the context that blocks may have
\* become an epoll waiter.
Looks == {NoLook} \cup SUBSET (EpollWaiting(jos) \cup {jos.cur})

Next ==
    /\ run = "running"
    /\ \E step \in Steps :
         \/ OtherCall(step)
         \/ \E tick \in Ticks, W \in Looks :
              \/ BlockingCall(step, tick, W)
              \/ Quantum(step, tick, W)
              \/ ExpireBudget(tick, W)

Spec == Init /\ [][Next]_vars

\* The guest keeps executing instructions, so the quantum of the loaded
\* context expires again and again: weak fairness of the quantum, with "another
\* context can be loaded" written out for its being enabled.
QuantumStep == \E step \in Steps, tick \in Ticks, W \in Looks : Quantum(step, tick, W)

-----------------------------------------------------------------------------
(* Properties. *)

\* jos and the run loop's result keep their types.
TypeOK ==
    /\ jos \in KernelType
    /\ run \in {"running", "blocked", "exited"}
    /\ why \in {"none", "main", "group", "last", "blocked"}

\* futexWait, wakeFutex, timeouts and thread exit keep the wait queues and the
\* contexts in step: the queue of an address holds exactly the contexts that
\* wait on it, each once.  A context left behind in a queue would swallow a
\* later wake-up; one missing from it would never be woken.
FutexQueuesExact == QueuesExact(jos)

\* refreshBlocked skips the scan of a wait kind whose counter is zero, so each
\* counter must be exactly the number of contexts waiting in that way with a
\* deadline, whatever mix of timeouts, wakes and exits came before.
TimedCountersExact == CountersExact(jos)

\* The context the hart executes is runnable: no path through blocking,
\* exiting, clock advances and the run loop resumes a waiting or an exited
\* thread (expireBudget and expireSchedulerQuantum overwrite its state).
CurrentRunnable == run = "running" => jos.state[jos.cur] = "runnable"

\* Whenever guest code runs, every wait whose deadline the clock has reached
\* has been ended: refreshBlocked follows each advance of the clock.
NoOverdueWaiter ==
    run = "running" => \A t \in TimedWaiting(jos) : jos.dl[t] > jos.now

\* A wait never ends as a timeout before its deadline, and a sleep that no
\* signal interrupts never ends early at all.
NoEarlyTimeout ==
    [][\A t \in TimedWaiting(jos) :
         LET slept == jos.kind[t] = "nanosleep" /\ (jos'.ret[t] = "0" \/ jos'.cur = t)
         IN  t \in Runnable(jos)' /\ (jos'.ret[t] = "ETIMEDOUT" \/ slept)
               => jos.dl[t] <= jos'.now]_vars

\* FUTEX_WAKE is first come first served: a context that is still queued when
\* the step ends has nobody behind it that the step woke (a timeout or a signal
\* may end the wait of anybody).
WakeInArrivalOrder ==
    [][\A a \in Addrs : \A i, k \in DOMAIN jos.waiters[a] :
         LET t == jos.waiters[a][i]
             u == jos.waiters[a][k]
         IN  i < k /\ t \in Waiting(jos)' /\ u \in Runnable(jos)'
             /\ (jos'.ret[u] # "none" \/ jos'.cur = u)
               => jos.dl[u] # NoDeadline /\ jos.dl[u] <= jos'.now]_vars

\* The process ends only when a thread asked for it: a NoteExit that means
\* "blocked" is never reported as an exit of the guest.
ExitOnlyOnRequest == run = "exited" => why # "blocked"

\* Starvation, including the window now open, stays within its share of the
\* elapsed virtual time.
ChaosWithinBudget ==
    (jos.chaosSpent + (jos.chaosUntil - jos.chaosStart)) * ChaosDen <= jos.now * ChaosNum
=============================================================================
