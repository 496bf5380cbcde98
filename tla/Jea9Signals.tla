----------------------------- MODULE Jea9Signals -----------------------------
(***************************************************************************)
(* The signal state of Jea9Linux: one table of actions, and per thread a   *)
(* mask, a queue of pending signals, an alternate stack and the frames of  *)
(* the handlers it runs.  Addresses count signal frames: a frame takes one *)
(* unit below the stack pointer, and handlers use no stack of their own.   *)
(* The alternate stack lies above the ordinary one.                        *)
(***************************************************************************)
EXTENDS Naturals, Sequences, FiniteSets

CONSTANTS
    Threads, Signals,
    StackTop, AltTop   \* ends of a thread's stack and of its alternate stack

ASSUME SignalsAssumption == StackTop \in Nat \ {0} /\ AltTop \in Nat /\ AltTop > StackTop

\* jea9LinuxSignalAction; without a handler it is SIG_DFL or SIG_IGN.
Action == [handler : BOOLEAN, mask : SUBSET Signals, onstack : BOOLEAN, restorer : BOOLEAN]

NoAction == [handler |-> FALSE, mask |-> {}, onstack |-> FALSE, restorer |-> FALSE]

SignalType ==
    [ act  : [Signals -> Action],
      mask : [Threads -> SUBSET Signals],
      pend : [Threads -> Seq(Signals)],
      alt  : [Threads -> BOOLEAN],
      sp   : [Threads -> Nat],
      at   : [Threads -> Nat],                \* what the thread executes: see Entered
      restorer : BOOLEAN,                     \* jos.signalRestorer is mapped
      reentered : [Threads -> BOOLEAN],       \* history: see Recorded
      frames : [Threads -> SUBSET [addr : Nat, sp : Nat, mask : SUBSET Signals, at : Nat]] ]

NoSignals ==
    [ act |-> [s \in Signals |-> NoAction],
      mask |-> [t \in Threads |-> {}],
      pend |-> [t \in Threads |-> << >>],
      alt |-> [t \in Threads |-> FALSE],
      sp |-> [t \in Threads |-> StackTop],
      at |-> [t \in Threads |-> 0],
      restorer |-> FALSE,
      reentered |-> [t \in Threads |-> FALSE],
      frames |-> [t \in Threads |-> {}] ]

\* What sysClone copies.
InheritMask(g, parent, child) == [g EXCEPT !.mask[child] = g.mask[parent]]

\* writeSignalFrame: a frame starts at the top of the alternate stack even when
\* the thread already runs on it.
UsesAlt(g, t, s) == g.alt[t] /\ g.act[s].onstack

FrameAddr(g, t, s) == (IF UsesAlt(g, t, s) THEN AltTop ELSE g.sp[t]) - 1

OnAltStack(g, t) == g.sp[t] > StackTop

\* deliverSignal writes and records a frame, which replaces one at the same
\* address, in guest memory too.  The code a thread executes is known by how many
\* handlers it is in.
Recorded(g, t, s) ==
    LET a == FrameAddr(g, t, s)
    IN  [g EXCEPT !.frames[t] = {fr \in @ : fr.addr # a} \cup
                     {[addr |-> a, sp |-> g.sp[t], mask |-> g.mask[t], at |-> g.at[t]]},
                  !.reentered[t] = @ \/ (UsesAlt(g, t, s) /\ OnAltStack(g, t))]

\* It then enters the handler, which returns through the restorer of the action
\* or the one ensureSignalRestorer maps.
Entered(g, t, s) ==
    [Recorded(g, t, s) EXCEPT !.mask[t] = @ \cup g.act[s].mask \cup {s},
                              !.sp[t] = FrameAddr(g, t, s), !.at[t] = @ + 1,
                              !.restorer = @ \/ ~g.act[s].restorer]

\* What deliverSignal may leave: the handler is entered, the frame cannot be
\* written (EFAULT), or it is recorded and no restorer can be mapped (ENOMEM).
Deliver(g, t, s) ==
    {Entered(g, t, s), g} \cup
    (IF g.act[s].restorer \/ g.restorer THEN {} ELSE {Recorded(g, t, s)})

\* signalContext: the signal is queued, dropped or delivered.  This operator and
\* the next two are sets of outcomes, as Deliver is.
Queues(g, t, s) == s \in g.mask[t]

Delivers(g, t, s) == s \notin g.mask[t] /\ g.act[s].handler

SignalContext(g, t, s) ==
    IF Queues(g, t, s) THEN {[g EXCEPT !.pend[t] = Append(@, s)]}
    ELSE IF Delivers(g, t, s) THEN Deliver(g, t, s)
    ELSE {g}

\* deliverPendingSignals: the first signal in the queue that is not blocked and
\* has a handler is delivered, or lost if that fails; the unblocked ones before it
\* are dropped.
Deliverable(g, t) == {i \in DOMAIN g.pend[t] : Delivers(g, t, g.pend[t][i])}

FirstDeliverable(g, t) ==
    CHOOSE i \in Deliverable(g, t) : \A k \in Deliverable(g, t) : i <= k

Blocked(g, t, q) == SelectSeq(q, LAMBDA s : s \in g.mask[t])

DeliverPendingSignals(g, t) ==
    LET q == g.pend[t]
        i == FirstDeliverable(g, t)
    IN  IF Deliverable(g, t) = {} THEN {[g EXCEPT !.pend[t] = Blocked(g, t, q)]}
        ELSE Deliver([g EXCEPT !.pend[t] = Blocked(g, t, SubSeq(q, 1, i - 1)) \o
                                           SubSeq(q, i + 1, Len(q))],
                     t, q[i])

Sigprocmask(g, t, mask) == DeliverPendingSignals([g EXCEPT !.mask[t] = mask], t)

\* findSignalFrame: the frame at the stack pointer, or the lowest above it.
Candidates(g, t) == {fr \in g.frames[t] : fr.addr >= g.sp[t]}

\* Deviation: the highest frame.
Dev_FindHighest(g, t) ==
    CHOOSE fr \in Candidates(g, t) : \A other \in Candidates(g, t) : fr.addr >= other.addr

FindSignalFrame(g, t) ==
    CHOOSE fr \in Candidates(g, t) : \A other \in Candidates(g, t) : fr.addr <= other.addr

\* sysRtSigreturn, with a frame to return to; pending signals stay pending.
Sigreturn(g, t) ==
    LET fr == FindSignalFrame(g, t)
    IN  [g EXCEPT !.frames[t] = @ \ {fr}, !.mask[t] = fr.mask,
                  !.sp[t] = fr.sp, !.at[t] = fr.at]

=============================================================================
