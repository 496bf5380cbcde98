------------------------------- MODULE Jea9FDs -------------------------------
(***************************************************************************)
(* The virtual descriptors of Jea9Linux that a guest can wait for:         *)
(* eventfds, pipes and the epoll instances that watch them.  The table is  *)
(* one record f; an operator is what one call does to it.  allocFD never   *)
(* gives out a number twice, so a descriptor is its number (the guest does *)
(* not call dup3, which can).                                              *)
(***************************************************************************)
EXTENDS Naturals, Sequences, FiniteSets

CONSTANTS
    Eventfds, Semaphores,   \* eventfds, those made with EFD_SEMAPHORE
    Pipes, Epolls,
    MaxCounter,             \* largest eventfd counter, 2^64 - 2 in the code
    PipeCap                 \* capacity of a pipe, 65536 in the code

ASSUME FDsAssumption ==
    /\ Semaphores \subseteq Eventfds
    /\ MaxCounter \in Nat \ {0} /\ PipeCap \in Nat \ {0}

ReadEnd(p) == <<p, "read">>

WriteEnd(p) == <<p, "write">>

PipeEnds == Pipes \X {"read", "write"}

FDs == Eventfds \cup PipeEnds \cup Epolls

Events == {"in", "out"}

\* jea9LinuxEpollRegistration; et is EPOLLET, last is lastReady.
Registration == [fd : FDs, events : SUBSET Events, et : BOOLEAN, last : SUBSET Events]

FDTable ==
    [ open  : SUBSET FDs,                        \* jos.fds
      made  : SUBSET FDs,                        \* numbers below jos.nextFD
      level : [Eventfds \cup Pipes -> Nat],      \* eventfdCounter, len(pipe.buf)
      regs  : [Epolls -> Seq(Registration)] ]    \* registrations in epoll.order

NoFDs ==
    [ open |-> {}, made |-> {},
      level |-> [o \in Eventfds \cup Pipes |-> 0],
      regs |-> [ep \in Epolls |-> << >>] ]

\* allocFD, for the descriptors of one call (pipe2 makes two).
AllocFD(f, new) == [f EXCEPT !.open = @ \cup new, !.made = @ \cup new]

Close(f, fd) == [f EXCEPT !.open = @ \ {fd}]

-----------------------------------------------------------------------------
(* Readiness. *)

FDReadyEvents(f, fd) ==
    {e \in Events :
       /\ fd \in f.open
       /\ \/ fd \in Eventfds /\ (e = "out" \/ f.level[fd] # 0)
          \/ \E p \in Pipes :
               \/ fd = ReadEnd(p) /\ e = "in" /\ f.level[p] > 0
               \/ fd = WriteEnd(p) /\ e = "out" /\ f.level[p] < PipeCap}

\* epollReadyForRegistration: what r reports.
Reports(f, r) ==
    (FDReadyEvents(f, r.fd) \cap r.events) \ (IF r.et THEN r.last ELSE {})

\* ... and what it remembers of it.
Seen(f, r) ==
    IF r.et THEN [r EXCEPT !.last = FDReadyEvents(f, r.fd) \cap r.events] ELSE r

Reporting(f, ep) == {i \in DOMAIN f.regs[ep] : Reports(f, f.regs[ep][i]) # {}}

\* epollCollectReady: registrations are looked at in order until max of them
\* have reported.
EpollCollectReady(f, ep, max) ==
    LET reached(i) == Cardinality({h \in Reporting(f, ep) : h < i}) < max
    IN  [f EXCEPT !.regs[ep] =
            [i \in DOMAIN @ |-> IF reached(i) THEN Seen(f, @[i]) ELSE @[i]]]

\* Deviation: nothing is re-armed.
Dev_ClearNothing(f, fd, bits) == f

ClearEpollReadyBitsForFD(f, fd, bits) ==
    [f EXCEPT !.regs = [ep \in Epolls |->
        [i \in DOMAIN @[ep] |->
            IF ep \in f.open /\ @[ep][i].fd = fd
            THEN [@[ep][i] EXCEPT !.last = @ \ bits] ELSE @[ep][i]]]]

-----------------------------------------------------------------------------
(* epoll_ctl. *)

Registered(f, ep) == {f.regs[ep][i].fd : i \in DOMAIN f.regs[ep]}

EpollAdd(f, ep, fd, events, et) ==
    [f EXCEPT !.regs[ep] =
        Append(@, [fd |-> fd, events |-> events, et |-> et, last |-> {}])]

EpollMod(f, ep, fd, events, et) ==
    [f EXCEPT !.regs[ep] =
        [i \in DOMAIN @ |->
            IF @[i].fd = fd
            THEN [fd |-> fd, events |-> events, et |-> et, last |-> {}] ELSE @[i]]]

EpollDel(f, ep, fd) ==
    [f EXCEPT !.regs[ep] = SelectSeq(@, LAMBDA r : r.fd # fd)]

-----------------------------------------------------------------------------
(* Reads and writes; the caller of a write then wakes the epoll waiters. *)

\* A read that leaves nothing re-arms the edge of the descriptor it read.
Drained(f, o, fd) ==
    IF f.level[o] = 0 THEN ClearEpollReadyBitsForFD(f, fd, {"in"}) ELSE f

EventfdRead(f, e) ==
    Drained([f EXCEPT !.level[e] = IF @ > 0 /\ e \in Semaphores THEN @ - 1 ELSE 0], e, e)

\* A write that would pass MaxCounter returns EAGAIN.
EventfdFits(f, e, v) == f.level[e] <= MaxCounter - v

EventfdWrite(f, e, v) == [f EXCEPT !.level[e] = @ + v]

PipeRead(f, p, n) ==
    Drained([f EXCEPT !.level[p] = IF n < @ THEN @ - n ELSE 0], p, ReadEnd(p))

PipeWrite(f, p, n) ==
    [f EXCEPT !.level[p] = IF n < PipeCap - @ THEN @ + n ELSE PipeCap]
=============================================================================
