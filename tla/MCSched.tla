-------------------------------- MODULE MCSched --------------------------------
(***************************************************************************)
(* Jea9Sched for TLC.  The configuration of the emulator (clock policy,    *)
(* scheduler mode, engine) and the calls of the guest are chosen at the    *)
(* start; each choice is an instance of Jea9Sched over the same variables. *)
(* The .cfg gives the constants of "fair", where guests wait without       *)
(* timeouts and sleep for one of three lengths.                            *)
(***************************************************************************)
EXTENDS Jea9Sched

CONSTANT Configurations   \* subset of {"fair", "idle", "chaos", "fixed", "jit"}

VARIABLE conf

AllWaits == {"futex", "epoll", "pselect"}

\* Run, round robin, every timed wait.
Idle == INSTANCE Jea9Sched WITH Timeouts <- {1, 2}, TimedCalls <- AllWaits

\* The same under RunJIT.
JIT == INSTANCE Jea9Sched
         WITH Engine <- "jit", Timeouts <- {1, 2}, TimedCalls <- AllWaits

\* Starvation windows.
Chaos == INSTANCE Jea9Sched
           WITH ClockPolicy <- "Chaos", Mode <- "Chaos", Timeouts <- {2},
                Calls <- {"futex"}, ChaosLens <- {0, 2}, MaxNow <- 5

\* A clock that moves with every scheduler event and with the instructions.
Fixed == INSTANCE Jea9Sched
           WITH ClockPolicy <- "Fixed", Mode <- "DST", Engine <- "jit", Timeouts <- {1, 2},
                Calls <- {"futex", "yield", "tgkill"}, TimedCalls <- {"futex"},
                Steps <- {1}, Ticks <- {0, 1}

allVars == <<vars, conf>>

MCInit == conf \in Configurations /\ Init

MCNext ==
    /\ \/ conf = "fair" /\ Next
       \/ conf = "idle" /\ Idle!Next
       \/ conf = "jit" /\ JIT!Next
       \/ conf = "chaos" /\ Chaos!Next
       \/ conf = "fixed" /\ Fixed!Next
    /\ UNCHANGED conf

MCSpec == MCInit /\ [][MCNext]_allVars

MCFairSpec ==
    /\ MCSpec
    /\ \/ []<>(conf # "fair" \/ run # "running" \/ OthersEligible(jos) = {})
       \/ []<><<conf = "fair" /\ QuantumStep>>_vars

\* Without starvation windows Run says rightly why it ends.
\* ErrJea9LinuxBlocked is a verdict of deadlock: no context is runnable and no
\* pending deadline could ever make one runnable.  An exit is one a thread asked
\* for: a NoteExit that means "blocked" is not reported as one.
VerdictsOfRun ==
    conf \in {"fair", "idle"} =>
      /\ run = "blocked" => Runnable(jos) = {} /\ TimedWaiting(jos) = {}
      /\ ExitOnlyOnRequest

\* With the idle-jump clock, an advance stops at the earliest pending deadline
\* and never passes one, as long as only sleeps have deadlines.
ClockStopsAtDeadlines ==
    [][conf = "fair" => \A t \in TimedWaiting(jos) : jos'.now <= jos.dl[t]]_allVars

\* Round robin is fair: a runnable context is loaded sooner or later, unless
\* the process ends first.
RunnableEventuallyRuns ==
    \A t \in Tid : (conf = "fair" /\ run = "running" /\ jos.state[t] = "runnable")
                     ~> (jos.cur = t \/ run # "running")
================================================================================
