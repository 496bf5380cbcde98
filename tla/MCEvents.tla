------------------------------- MODULE MCEvents -------------------------------
(* Jea9Events for TLC: one workload per interplay. *)
EXTENDS Jea9Events

CONSTANTS e1, p1, ep1, s1, s2

MCThreads == Tid

Watch(fd, events, et) == [fd |-> fd, events |-> events, et |-> et]

Plain == [handler |-> TRUE, mask |-> {}, onstack |-> FALSE, restorer |-> FALSE]

Full == [handler |-> TRUE, mask |-> Signals, onstack |-> TRUE, restorer |-> TRUE]

\* May interrupt a handler on the alternate stack, which it runs on itself.
Open == [handler |-> TRUE, mask |-> {}, onstack |-> TRUE, restorer |-> FALSE]

MCActions == {Plain, Full}

AllMade == AllocFD(NoFDs, FDs)

\* The pipe and the eventfd registered with ep1, level- or edge-triggered.
Watching(pipeEdge, eventEdge) ==
    EpollAdd(EpollAdd(AllMade, ep1, ReadEnd(p1), {"in"}, pipeEdge), ep1, e1, {"in"}, eventEdge)

Ignored == [s \in Signals |-> NoAction]

\* Two threads wait on one instance, a third writes and reads.
Waiters ==
    {[calls |-> {"epoll", "io"}, made |-> Watching(p, e), act |-> Ignored,
      makes |-> {}, watch |-> {}, trusting |-> TRUE, threads |-> 3] : p, e \in BOOLEAN}

\* Descriptors are made, watched, for output too, and closed.
Lifetimes ==
    {[calls |-> {"epoll", "ctl", "close", "io"}, made |-> NoFDs, act |-> Ignored,
      makes |-> m, watch |-> {w}, trusting |-> TRUE, threads |-> 2] :
        <<m, w>> \in {<<{{e1}, {ep1}}, Watch(e1, {"in"}, FALSE)>>,
                     <<{{ReadEnd(p1), WriteEnd(p1)}, {ep1}}, Watch(WriteEnd(p1), Events, TRUE)>>}}

\* Handlers nest and change masks on the ordinary stack.
Nesting ==
    {[calls |-> {"kill", "sigprocmask"}, made |-> NoFDs, act |-> a,
      makes |-> {}, watch |-> {}, trusting |-> FALSE, threads |-> 1] :
        a \in [Signals -> {NoAction, Plain}]}

\* Handlers run on the alternate stack and block each other, as Go's do.
AltStack ==
    {[calls |-> {"kill", "sigaction", "sigprocmask", "sigaltstack"}, made |-> NoFDs,
      act |-> Ignored, makes |-> {}, watch |-> {}, trusting |-> TRUE, threads |-> 1]}

\* They do not block each other, and one may run over another.
Reentry ==
    {[calls |-> {"kill", "sigprocmask", "sigaltstack"}, made |-> NoFDs,
      act |-> a, makes |-> {}, watch |-> {}, trusting |-> TRUE, threads |-> 1] :
        a \in {b \in [Signals -> {Plain, Full, Open}] : Open \in {b[s] : s \in Signals}}}

\* Signals cut short every kind of wait.
Interrupts ==
    {[calls |-> {"futex", "sleep", "epoll", "io", "kill", "exit"},
      made |-> EpollAdd(AllocFD(NoFDs, {e1, ep1}), ep1, e1, {"in"}, TRUE),
      act |-> [s \in Signals |-> IF s = s1 THEN Plain ELSE NoAction],
      makes |-> {}, watch |-> {}, trusting |-> TRUE, threads |-> 2]}

\* A full pipe is watched for output; the threads that could make room go to
\* sleep elsewhere, or close the instance.
PipeFull ==
    {[calls |-> {"futex", "epoll", "close", "io"},
      made |-> EpollAdd(AllocFD(NoFDs, {ReadEnd(p1), WriteEnd(p1), ep1}),
                        ep1, WriteEnd(p1), {"out"}, et),
      act |-> Ignored, makes |-> {}, watch |-> {}, trusting |-> TRUE, threads |-> 2] : et \in BOOLEAN}

EventWorkloads ==
    Waiters \cup Lifetimes \cup PipeFull \cup Nesting \cup AltStack \cup Reentry \cup
    Interrupts
===============================================================================
