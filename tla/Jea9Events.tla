------------------------------ MODULE Jea9Events ------------------------------
(***************************************************************************)
(* Descriptors and signals on top of the scheduler: which epoll waits a    *)
(* write ends, which waits a signal ends, and where a handler returns to.  *)
(* Jea9Sched leaves open who is woken by a write or interrupted by a       *)
(* signal; here the descriptor table and the signal state decide, and      *)
(* every step is still a step of Jea9Sched (ImplementsScheduler).          *)
(***************************************************************************)
EXTENDS Jea9Sched, Jea9FDs, Jea9Signals, SequencesExt

CONSTANTS
    MaxEvents,    \* values of epoll_pwait's maxevents
    Amounts,      \* what a guest writes to an eventfd, bytes it moves in a pipe
    GuestActions, \* what it installs with rt_sigaction
    MaxDepth,     \* bound on nested handlers
    MaxPending,   \* bound on a pending queue
    Workloads     \* which calls the guest makes: see Workload

\* What eventfd2, epoll_create1 and pipe2 make.
FDSets == {{e} : e \in Eventfds \cup Epolls} \cup {{ReadEnd(p), WriteEnd(p)} : p \in Pipes}

\* calls are the calls the guest makes from here on; made and act are the
\* descriptors and the actions it starts with; makes are the descriptors it
\* makes, a pipe's two ends together; watch is what it registers with
\* epoll_ctl; trusting guests change no mask inside a handler; threads bounds
\* how many threads there are.
Workload ==
    [calls : SUBSET {"futex", "sleep", "epoll", "ctl", "close", "io", "kill",
                     "sigaction", "sigprocmask", "sigaltstack", "exit"},
     made : FDTable,
     makes : SUBSET FDSets,
     act : [Signals -> Action],
     watch : SUBSET [fd : FDs, events : SUBSET Events, et : BOOLEAN],
     trusting : BOOLEAN,
     threads : Tid]

ASSUME EventsAssumption ==
    /\ Threads = Tid
    /\ Engine = "interp" /\ Mode # "Chaos"   \* Run, and whoever is runnable may run
    /\ {"futex", "epoll", "tgkill"} \subseteq Calls
    /\ MaxEvents \subseteq Nat \ {0} /\ Amounts \subseteq Nat \ {0}
    /\ GuestActions \subseteq Action
    /\ MaxDepth \in Nat /\ MaxPending \in Nat
    /\ \A w \in Workloads : w \in Workload

VARIABLES
    work,    \* the guest's workload
    fds,     \* jos.fds
    wait,    \* waitFD and waitMaxEvents of the contexts in an epoll wait
    sig,     \* actions, masks, pending signals and frames
    armed,   \* descriptors registered before a wait began and not touched since
    outside  \* the mask a thread last set outside its handlers

eventVars == <<jos, run, why, work, fds, wait, sig, armed, outside>>

NoWait == [ep |-> NoAddr, max |-> 0]

EventsInit ==
    /\ Init
    /\ work \in Workloads
    /\ fds = work.made
    /\ wait = [t \in Tid |-> NoWait]
    /\ sig = [NoSignals EXCEPT !.act = work.act]
    /\ armed = [t \in Tid |-> {}]
    /\ outside = [t \in Tid |-> {}]

\* clearContextWaitFields: a context that left its epoll wait forgets it.
ForgetEnded ==
    /\ wait' = [t \in Tid |-> IF t \in EpollWaiting(jos') THEN wait[t] ELSE NoWait]
    /\ armed' = [t \in Tid |-> IF t \in EpollWaiting(jos') THEN armed[t] ELSE {}]

-----------------------------------------------------------------------------
(* Looking at the descriptors of epoll waiters. *)

\* epollCollectReady for the contexts of P in turn, as wakeEpollWaitersForFD and
\* refreshEpollReadiness call it: f is the table left, woken those it has events
\* for or, with their epoll descriptor closed, EBADF.  Both range over a Go map,
\* so the order is any.  w says what the contexts wait for.
Collected(f, w, P) ==
    LET look(s, t) ==
          IF w[t].ep \notin f.open THEN [s EXCEPT !.woken = @ \cup {t}]
          ELSE [f |-> EpollCollectReady(s.f, w[t].ep, w[t].max),
                woken |-> IF Reporting(s.f, w[t].ep) = {} THEN s.woken
                          ELSE s.woken \cup {t}]
    IN  {FoldLeft(look, [f |-> f, woken |-> {}], order) : order \in SetToSeqs(P)}

\* What the run loop finds, if it comes to look at all.
RunLoopLooks(f, w) ==
    {[f |-> f, woken |-> NoLook]} \cup Collected(f, w, {t \in Tid : w[t] # NoWait})

-----------------------------------------------------------------------------
(* Calls that only the scheduler sees. *)

\* Waits.
Sleep ==
    /\ \E s \in RunLoopLooks(fds, wait) :
         /\ \/ "futex" \in work.calls /\ \E a \in Addrs : SysFutexWait(a, 0, 0, s.woken)
            \/ "sleep" \in work.calls /\ \E d \in Timeouts : SysNanosleep(d, 0, 0, s.woken)
         /\ fds' = s.f
    /\ ForgetEnded
    /\ UNCHANGED <<work, sig, outside>>

\* The quantum of the loaded context expires.
QuantumExpires ==
    /\ \E s \in RunLoopLooks(fds, wait) : Quantum(0, 0, s.woken) /\ fds' = s.f
    /\ ForgetEnded
    /\ UNCHANGED <<work, sig, outside>>

SchedulerOnly ==
    /\ \/ "futex" \in work.calls /\ \E a \in Addrs : SysFutexWake(a, 1)
       \/ "exit" \in work.calls /\ SysExit
    /\ ForgetEnded
    /\ UNCHANGED <<work, fds, sig, outside>>

\* sysClone: the child starts with the parent's mask.
Clone ==
    /\ jos.n < work.threads
    /\ SysClone(NoAddr)
    /\ sig' = InheritMask(sig, jos.cur, jos.n + 1)
    /\ outside' = [outside EXCEPT ![jos.n + 1] = sig.mask[jos.cur]]
    /\ UNCHANGED <<work, fds, wait, armed>>

-----------------------------------------------------------------------------
(* Descriptors. *)

\* A call that changes the table and nothing else.
Table(f) ==
    /\ fds' = f
    /\ UNCHANGED <<vars, work, wait, sig, armed, outside>>

\* eventfd2, epoll_create1, pipe2.
Make ==
    \E new \in work.makes :
      new \cap fds.made = {} /\ Table(AllocFD(fds, new))

\* sysClose: registrations of the descriptor, and waits on it, stay.
SysClose ==
    /\ "close" \in work.calls
    /\ \E fd \in fds.open : Table(Close(fds, fd))

\* epoll_ctl wakes nobody.
SysEpollCtl(ep, w) ==
    /\ "ctl" \in work.calls
    /\ {ep, w.fd} \subseteq fds.open
    /\ \/ /\ w.fd \notin Registered(fds, ep)
          /\ fds' = EpollAdd(fds, ep, w.fd, w.events, w.et)
       \/ /\ w.fd \in Registered(fds, ep)
          /\ \/ fds' = EpollMod(fds, ep, w.fd, w.events, w.et)
             \/ fds' = EpollDel(fds, ep, w.fd)
    /\ armed' = [t \in Tid |-> IF wait[t].ep = ep THEN armed[t] \ {w.fd} ELSE armed[t]]
    /\ UNCHANGED <<vars, work, wait, sig, outside>>

\* sysEpollPwait: what is ready is returned at once, and so is "nothing" when
\* the timeout is 0.
EpollReturns(ep, max) ==
    Table(EpollCollectReady(fds, ep, max))

EpollBlocks(ep, max) ==
    /\ Reporting(fds, ep) = {}
    /\ \E s \in RunLoopLooks(EpollCollectReady(fds, ep, max),
                            [wait EXCEPT ![jos.cur] = [ep |-> ep, max |-> max]]) :
         SysEpollPwait(0, 0, s.woken) /\ fds' = s.f
    /\ LET waits == jos.cur \in EpollWaiting(jos')
       IN  /\ wait' = [t \in Tid |->
                 IF t = jos.cur /\ waits THEN [ep |-> ep, max |-> max]
                 ELSE IF t \in EpollWaiting(jos') THEN wait[t] ELSE NoWait]
           /\ armed' = [t \in Tid |->
                 IF t = jos.cur /\ waits THEN Registered(fds, ep)
                 ELSE IF t \in EpollWaiting(jos') THEN armed[t] ELSE {}]
    /\ UNCHANGED <<work, sig, outside>>

EpollPwait ==
    /\ "epoll" \in work.calls
    /\ \E ep \in Epolls \cap fds.open, max \in MaxEvents :
         EpollReturns(ep, max) \/ EpollBlocks(ep, max)

\* The waiters wakeEpollWaitersForFD looks at.
Watchers(fd) ==
    {t \in EpollWaiting(jos) :
       wait[t].ep \in fds.open /\ fd \in Registered(fds, wait[t].ep)}

\* wakeEpollWaitersForFD, with the table a write left.
WakeWatchers(f, fd) ==
    \E s \in Collected(f, wait, Watchers(fd)) :
      /\ fds' = s.f
      /\ IF s.woken = {} THEN UNCHANGED vars ELSE WakeEpollWaitersForFD(s.woken)
      /\ ForgetEnded

\* Deviation: the writer wakes the waiters of the end it wrote to.
Dev_WriteWakesWriter(p, n) ==
    WakeWatchers(PipeWrite(fds, p, n), WriteEnd(p))

WriteToPipe(p, n) == WakeWatchers(PipeWrite(fds, p, n), ReadEnd(p))

IO ==
    /\ "io" \in work.calls
    /\ \/ \E e \in Eventfds \cap fds.open : Table(EventfdRead(fds, e))
       \/ \E p \in Pipes, n \in Amounts :
            ReadEnd(p) \in fds.open /\ Table(PipeRead(fds, p, n))
       \/ /\ \/ \E e \in Eventfds \cap fds.open, v \in Amounts :
                  EventfdFits(fds, e, v) /\ WakeWatchers(EventfdWrite(fds, e, v), e)
             \/ \E p \in Pipes, n \in Amounts :
                  /\ WriteEnd(p) \in fds.open /\ fds.level[p] < PipeCap
                  /\ WriteToPipe(p, n)
          /\ UNCHANGED <<work, sig, outside>>

-----------------------------------------------------------------------------
(* Signals. *)

\* A call that changes the signal state and nothing else.
Signal(g) ==
    /\ sig' = g
    /\ UNCHANGED <<vars, work, fds, wait, armed, outside>>

SysRtSigaction ==
    /\ "sigaction" \in work.calls
    /\ \E s \in Signals, a \in GuestActions : Signal([sig EXCEPT !.act[s] = a])

SysSigaltstack ==
    /\ "sigaltstack" \in work.calls
    /\ \E on \in BOOLEAN : Signal([sig EXCEPT !.alt[jos.cur] = on])

InHandler(t) == sig.at[t] > 0

SysRtSigprocmask ==
    /\ "sigprocmask" \in work.calls
    /\ work.trusting => ~InHandler(jos.cur)
    /\ \E mask \in SUBSET Signals :
         /\ sig' \in Sigprocmask(sig, jos.cur, mask)
         /\ sig'.at[jos.cur] <= MaxDepth
         /\ outside' = IF InHandler(jos.cur) THEN outside
                       ELSE [outside EXCEPT ![jos.cur] = mask]
    /\ UNCHANGED <<vars, work, fds, wait, armed>>

\* The target starts a handler.
Enters(t) == sig'.at[t] > sig.at[t]

\* Deviation: the handler runs with the wait still in place.
Dev_InterruptKeepsWait(t) ==
    IF Enters(t) /\ t \in Waiting(jos)
    THEN Continue([jos EXCEPT !.state[t] = "runnable"]) ELSE UNCHANGED vars

\* deliverSignal ends the wait of the target; a signal that is queued, dropped or
\* cannot be delivered does not.
Interrupt(t) ==
    IF Enters(t) /\ t \in Waiting(jos) THEN SysTgkill(t) ELSE UNCHANGED vars

\* tgkill, tkill, kill (to the caller): signalTIDSyscall.
SignalTIDSyscall ==
    /\ "kill" \in work.calls
    /\ \E t \in Tid, s \in Signals :
         /\ jos.state[t] \in {"runnable", "waiting"}
         /\ sig' \in SignalContext(sig, t, s)
         /\ sig'.at[t] <= MaxDepth /\ Len(sig'.pend[t]) <= MaxPending
         /\ Interrupt(t)
    /\ ForgetEnded
    /\ UNCHANGED <<work, fds, outside>>

\* A handler returns; without a frame the call fails with EINVAL.
SysRtSigreturn ==
    /\ InHandler(jos.cur)
    /\ Candidates(sig, jos.cur) # {}
    /\ Signal(Sigreturn(sig, jos.cur))

EventsNext ==
    /\ run = "running"
    /\ \/ QuantumExpires
       \/ Sleep
       \/ SchedulerOnly
       \/ Clone
       \/ Make
       \/ SysClose
       \/ \E ep \in Epolls, w \in work.watch : SysEpollCtl(ep, w)
       \/ EpollPwait
       \/ IO
       \/ SysRtSigaction
       \/ SysSigaltstack
       \/ SysRtSigprocmask
       \/ SignalTIDSyscall
       \/ SysRtSigreturn

EventsSpec == EventsInit /\ [][EventsNext]_eventVars

\* What a thread that sleeps in epoll_pwait would be told.
HasNews(t) ==
    /\ wait[t] # NoWait
    /\ wait[t].ep \in fds.open => Reporting(fds, wait[t].ep) # {}

\* The guest keeps executing instructions, so quanta keep expiring.  Weak
\* fairness of QuantumExpires implies this; only quanta at which a thread has
\* news matter to NewsArrives.
FairEventsSpec ==
    /\ EventsSpec
    /\ \/ []<>(run # "running" \/ \A t \in Tid : ~HasNews(t))
       \/ []<><<QuantumExpires>>_eventVars

-----------------------------------------------------------------------------
(* Properties. *)

\* The descriptor table, the epoll waits and the signal state keep their types;
\* eventfd counters and pipes stay within their limits.
EventsTypeOK ==
    /\ work \in Workloads
    /\ fds \in FDTable
    /\ \A e \in Eventfds : fds.level[e] <= MaxCounter
    /\ \A p \in Pipes : fds.level[p] <= PipeCap
    /\ \A t \in Tid : wait[t] = NoWait \/ wait[t] \in [ep : Epolls, max : MaxEvents]
    /\ sig \in SignalType
    /\ armed \in [Tid -> SUBSET FDs]
    /\ outside \in [Tid -> SUBSET Signals]

\* Every descriptor and signal call is one of the scheduler's steps, so what
\* is proved of Jea9Sched (exact queues and counters, only runnable contexts
\* execute) holds with signals cutting waits short and writes ending them.
ImplementsScheduler == Spec

\* wakeEpollWaitersForFD misses nobody: a thread does not sleep in epoll_pwait
\* while a descriptor it had registered before has input it was not told of.
NobodyMissesInput ==
    \A t \in Tid : wait[t].ep \in fds.open =>
      \A i \in DOMAIN fds.regs[wait[t].ep] :
        LET r == fds.regs[wait[t].ep][i]
        IN  r.fd \in armed[t] => "in" \notin Reports(fds, r)

\* The state has its types, and edge-triggered input is not lost: a registration counts as reported only
\* while the input it reported is still there, so the next write is an edge.
NoStaleEdge ==
    /\ EventsTypeOK
    /\ \A ep \in fds.open \cap Epolls : \A i \in DOMAIN fds.regs[ep] :
         LET r == fds.regs[ep][i]
         IN  r.fd \in fds.open /\ "in" \in r.last => "in" \in FDReadyEvents(fds, r.fd)

\* A handler returns to the code it interrupted, however handlers nest on the
\* two stacks, whoever is scheduled between and whichever deliveries failed: the
\* frame rt_sigreturn takes is the one of the innermost handler.  It gives back
\* the mask too: a thread outside its handlers blocks what it last asked to
\* block, whatever handlers ran and what they blocked.  The proviso is that no
\* SA_ONSTACK signal reached the thread while it ran on its alternate stack:
\* writeSignalFrame puts that frame over the one of the handler running there.
ReturnsToInterrupted ==
    \A t \in Tid : ~sig.reentered[t] =>
      IF InHandler(t)
      THEN Candidates(sig, t) # {} /\ FindSignalFrame(sig, t).at = sig.at[t] - 1
      ELSE sig.mask[t] = outside[t]

\* Reads that make room, epoll_ctl and close wake nobody: the run loop has to
\* notice.  A thread in epoll_pwait that has something to be told does not sleep
\* on: it wakes, or what it would have been told is gone, or the process exits.
\* Above all the guest is not reported as blocked in its place.
NewsArrives == \A t \in Tid : HasNews(t) ~> (~HasNews(t) \/ run = "exited")
===============================================================================
