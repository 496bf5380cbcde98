# Verification of riscv-emu-golang

This directory holds TLA+ models of the RISC-V emulator in `src/`, the TLC
configurations that check them, and TLAPS proofs about them. `PROJECT.json` is
the index: components, runs, the source lines each definition stands for, the
hazards of the code and the theorems.

## The system

The emulator executes RV64 guests in Go. Its parts, and how they interact:

- **CPU and execution engines** (`cpu.go`, `run_cached.go`, `exec_slot32.go`,
  `decode.go`, `float.go`, `jit*.go`, `lower_*.go`, `ir.go`, `cfg.go`). An
  interpreter with a decode cache and a JIT that lowers guest blocks to host
  code. Both stop after an instruction budget and report ecalls, faults and
  breakpoints as *notes* (`note.go`) to a chain of handlers.
- **Guest memory** (`guestmem.go`, `guestmem_exec.go`, `mmu.go`, `cow_*.go`,
  `machine.go`): flat memory, page permissions and executable regions, the
  Sv39/Sv48 walk with software TLBs, copy-on-write clones of a machine.
- **Jea9Linux** (`jea9linux*.go`): a user-mode Linux personality with
  deterministic threads, futexes, a virtual clock, epoll, eventfd, pipes,
  signals, memory mapping, files and sockets. One goroutine runs everything on
  one hart; threads are saved register snapshots.
- **Board** (`bios.go`, `machine_interrupt.go`, `hostio.go`): the machine-mode
  platform for OpenSBI and Linux: CLINT timer, PLIC, two UARTs, a host I/O
  device and virtio-net. Host goroutines (stdin, console socket, network)
  feed devices while the hart runs or sleeps in WFI.
- **virtio-net and emunet** (`virtio_net*.go`, `emunet/`): the network device,
  the NAT and the leader/follower switch that connects emulators on one host.
- **Tools** (`cmd/`, `aot.go`, `highlevel.go`, `dmap.go`, ...).

## Modules

| Module | What it models | Source |
| --- | --- | --- |
| `Jea9Kernel` | the kernel state `jos` and its operators: futex queues, timed-wait counters, clock, starvation windows, choice of the next context | `jea9linux.go` |
| `Jea9Sched` | the scheduler as a state machine: system calls, quantum, run loops `Run` and `RunJIT` | `jea9linux.go` |
| `Jea9FDs` | eventfds, pipes and epoll instances: readiness, collection, edges | `jea9linux.go` |
| `Jea9Signals` | actions, masks, pending queues, alternate stacks, frames | `jea9linux.go` |
| `Jea9Events` | the composition of the three: who is woken by a write, which wait a signal ends | `jea9linux.go` |
| `Jea9Sockets` | TCP sockets in real time: watcher goroutines, the event channel, the waits of the run loop | `jea9linux_socket.go`, `jea9linux.go` |
| `GuestVM` | brk, mmap, munmap, mprotect, page overlay, executable regions | `jea9linux.go`, `guestmem_exec.go` |
| `BoardIRQ` | PLIC, two UARTs, the cached interrupt answer, WFI, host goroutines | `bios.go`, `machine_interrupt.go`, `console_attach.go` |
| `HartTraps` | privilege modes: trap entry, delegation, MRET, SRET | `cpu.go` |
| `HartMMU` | page-table walk, the three TLBs, fences, `satp`, rights | `mmu.go`, `cpu.go` |
| `VirtioNet` | virtio-net device, a driver, an injecting goroutine | `virtio_net.go` |
| `FrameFIFO` | what a queue of the device promises: frames leave in the order they came, and none is lost while it is open | |
| `EmunetRouter` | the leader's switch: ports, leases, NAT | `virtio_net_emunet.go` |
| `Emunet` | leader election, circuits, failures, and the switch of the leader | `virtio_net_stack_tsnet.go`, `emunet/` |
| `Jea9SchedProofs`, `Jea9TimeProofs`, `GuestVMProofs`, `HartMMUProofs`, `BoardProofs`, `VirtioNetProofs`, `VirtioOrderProofs`, `EmunetProofs` | proofs | |
| `MCSched`, `MCEvents`, `MCSockets`, `MCGuestVM`, `MCBoard`, `MCMMU`, `MCVirtio`, `MCEmunet` | instances for TLC | |

Operators named `Dev_...` are deliberate deviations, each a plausible bug. No
behaviour of the models uses them; putting one in the place of the definition
that follows it must break the property `PROJECT.json` names for it.

Several modules choose a *workload* or a configuration in `Init` (`work`,
`MCSched!conf`, `MCBoard!machine`): what the guest calls, which faults happen,
which machine it runs on. One run then covers several interplays without paying
for their product. The choice never changes afterwards, except that faults and
starts left to happen are counted down in `Emunet`.

### Scheduler (`Jea9Kernel`, `Jea9Sched`)

`jos` is one record: per context its state, kind of wait, futex address,
deadline and result; `waiters` (the futex queues), the counters of timed
waiters per kind, the clock `now`, the blocked flag, the current context, and the
starvation window. A system call is one step because one goroutine runs the
kernel and all guest threads: the step is all of `Handle` and what the run loop
does with the disposition. `Quantum` is the end of a slice. What
`refreshEpollReadiness` finds when a slice ends depends on descriptors, which
this module does not have: it may wake any set of epoll waiters, and
`Jea9Events` says which. Registers, futex words and results are reduced to the
choices they decide. Time is Hermit, the virtual clock. Two PRNGs become free
choices (`Steps`, `ChaosLens`), so the runs cover every seed.

### Descriptors and signals (`Jea9FDs`, `Jea9Signals`, `Jea9Events`)

`fds` is the table of eventfds, pipes and epoll instances. A registration keeps
`lastReady`, which makes it edge triggered. `sig` holds the actions and, per
thread, mask, pending queue, stack pointer and the frames of its handlers.
Addresses count frames, so that two handlers can collide on a stack as they do
in guest memory; what a thread executes is known by the depth of its handlers.
`Deliver` is a set of outcomes: the handler is entered, the frame cannot be
written (EFAULT), or it is recorded and no page is left for the restorer
(ENOMEM). A frame on the alternate stack starts at its top even when a handler
runs there, and replaces that handler's frame; `reentered` is the history of
threads to which this has happened, which `ReturnsToInterrupted` excepts.

Every action of `Jea9Events` is an action of `Jea9Sched` with its choices made:
the write that wakes some epoll waiters, the signal that ends a wait. The
property `ImplementsScheduler` is that `Jea9Sched!Spec` holds, so what is proved
of the scheduler holds with descriptors and signals too. `armed` (descriptors
registered before a wait began and not touched since) and `outside` (the mask set
outside handlers) are history.

### Sockets (`Jea9Sockets`)

In real time goroutines accept and read on the host and send what they find over
`externalEvents`. A step of the emulator's goroutine is a system call or one turn
of its loop; `pc` says whether guest code runs, `scheduleAfterCurrentBlocked` or
`Run` decides, or `waitRealTimeBlocked` sleeps. A step of a watcher is one
blocking call: `AcceptTCP`, `conn.Read`, or the send into the channel, which
blocks while it is full. Peers and the host's queues are external. Threads are
interchangeable here: any runnable one may run, and `Jea9Sched` says which.
Blocking reads do not exist in this code: an empty read is EAGAIN, so epoll is
how a guest waits. The socket generation is redundant in this model because only
`dup3` reuses numbers, and the guests do not call it.

### Address space (`GuestVM`)

Memory is pages with one abstract content each (zero, or data somebody wrote). `pages`
is `vm.pages`: untracked, unmapped, or mapped with a protection and a
needs-zeroing mark. `regions` is the table the JIT consults. `RemoveExecRegion`
keeps the code's aliasing: its result shares the array of the slice it reads.

### Board (`BoardIRQ`)

A step is one access to state that two goroutines share: a UART channel, the
atomic `externalInterruptDirty`, virtio-net's interrupt status, `wfiWake`. The
hart's evaluation of the PLIC is therefore several steps (clear the flag, drain
UART 0, drain UART 1, read virtio-net, store the answer) between which host
goroutines move. `hart.pc` says where it is and `hart.job` what the drain is for.

### Translation (`HartTraps`, `HartMMU`)

One step is one instruction: an access through the TLB of its kind, a store to
a page table, a fence, a change of `satp` or `mstatus`, a trap or a return.
Tables have `Fan` entries on each of `Levels` levels. The bits of an address
above the highest level take `Uppers` values, of which the first goes with the
lower half of the highest table and the last with the upper half
(`CanonicalVA`). Each mode has its own ecall cause; `medeleg` can delegate page
faults and the ecall of U mode (`Delegable`). An entry is split into
`pte`, which the guest writes, and `ad`, the accessed and dirty bits the walk
sets. `edited`, `watch` and `seen` are history: which entries changed since the
last flush, and whether the tables gave one chosen translation since then.

### virtio-net (`VirtioNet`, `FrameFIFO`)

Both split rings are in guest memory with indices modulo `IdxMod` (uint16 in the
code) and slots modulo `QNum`. A register access holds the device mutex and is
one step. `InjectGuestFrame` takes a step per frame, since the guest writes its
rings without the mutex. The driver is external and uses one descriptor per
buffer. `drainTXLocked`'s loop is the recursive function `FramesOf`: what it has
gathered after each chain. `RX` and `TX` instantiate `FrameFIFO` with what is published, returned or
pending as the abstract queue, which is open while the device's queue is ready.
The FIFO never reorders, repeats or invents a frame, and it loses none while it
is open, whatever faults the device meets: only closing a queue (what its
rings hold) and a reset (all) lose frames. That frames do arrive
in steady operation is `FramesArrive`.

### Emulator network (`EmunetRouter`, `Emunet`)

A process is its constructor and then its watchdog (`pc`), its reader of circuit
events, and the sends of its guest. Promotion takes several steps (bind the
rendezvous socket, build the core, publish the role), because the mutex is
released in between; a `Close`, a failed circuit or the death of the process can
fall between any two. `Close` takes two steps, since it reads the fields of the
stack without the lock: first it cancels the context and closes circuit and DNS
server, then the core, if there is one by then, and the node. Peers reach a
process until the second (`Reachable`). A circuit is named by its ends and a number. When it fails
each end sees an error event or nothing, as the event may be dropped when the
context of the circuit is done. (`readCircuit` also reports a message it cannot
decode; processes that all run this program send none.) The core is `EmunetRouter`'s record: ports with
leases, `natByOut` and `natByIn`, and both allocators. Packets are reduced to
their flow. `hung` records that `nextNATLocked` found no free port; the code
then loops with the mutex held. Rendezvous, circuits and the tailnet are
libraries and external.

## Runs

| Run | Checks | Shows |
| --- | --- | --- |
| `sched` | FutexQueuesExact, TimedCountersExact, CurrentRunnable, NoOverdueWaiter, VerdictsOfRun, ChaosWithinBudget, WakeInArrivalOrder, NoEarlyTimeout, ClockStopsAtDeadlines, RunnableEventuallyRuns | four configurations: idle-jump clock with sleeps (`fair`) and with every timed wait (`idle`), starvation windows (`chaos`), fixed-step clock under the JIT loop (`fixed`) |
| `sched_jit_exit` | ExitOnlyOnRequest (violated) | `RunJIT` reports an exit where `Run` reports a blocked guest |
| `guest_events` | NobodyMissesInput, NoStaleEdge, ReturnsToInterrupted, NewsArrives, ImplementsScheduler | epoll, eventfds, pipes and signals over the scheduler |
| `sockets` | StreamIntact, ConnectionsInOrder, GivenUpMeansSilent, InputWakes | watchers racing with calls, slices and waits: nothing is lost, repeated or overtaken, and input wakes the guest |
| `guest_vm` | MappedContents, RegionsOnlyExec | any order of memory calls |
| `exec_split` | RegionsCoverExec (violated) | splitting a region loses the regions after it |
| `board` | CacheIsExact, NeverSleepsThroughInterrupt, BytesInOrder, DueIsSeen | three machines: with virtio-net, with every UART and PLIC register, with more input than the buffers hold |
| `board_console` | CacheIsExact (violated) | console socket bytes do not mark the cache stale |
| `mmu` | TLBTransparent, NothingOlderThanFence, DirtyBeforeStore | TLBs are invisible to a guest that fences, and never older than the last fence to one that does not |
| `virtio` | OneOwner, ReceiveSignalled, KeepsOrder, FramesArrive | both directions, wraps, faults, short buffers, resets |
| `emunet` | TypeOK, LeaderOwnsRendezvous, NATTablesAgree, FlowKept, SpinsOnlyWhenFull, LeasesDistinct, GoodCircuitKept, FailoverCompletes | elections, crashes, closes, lost circuits and the frames of guests |
| `emunet_close` | CloseStopsPromotion (violated) | a stack closed during its promotion leads afterwards |

Where a run does not list a type invariant, it is part of a property that it
does list, or is proved (`TypeCorrect`, `BoardTypeCorrect`).

### Bounds

- Scheduler: three contexts (a waker and two waiters, or current, starved and
  eligible), one futex address, a clock to 4 or 5 and timeouts to 3: equal,
  earlier and later deadlines all occur. Contexts cannot be told apart except by
  number, which round robin uses, so symmetry is not used.
- Events: one eventfd, one pipe of two bytes and one epoll instance; two
  signals, handlers three deep and two pending. That suffices for two waiters on
  one instance that asks for one event at a time, for a full pipe, and for a
  handler interrupted on either stack. In the workload `Reentry` handlers run over
each other on the alternate stack. Each interplay is a workload of its own.
- Sockets: a listener and two connections, or a client; two bytes each, so that a
  read can leave one behind; a channel of two, which fills.
- Address space: six pages with text, heap and mapping area; eight for the split,
  which needs a region of three pages and another after it.
- Board: buffers of size 1 or 2 and one byte more than fits, one injector. The
  machines differ in which registers the guest uses (`GuestOps`), because the
  full product is too large.
- MMU: two levels of two entries, TLBs of one entry, so that pages compete; two
  address spaces sharing a table; large pages, misaligned ones, invalid entries;
  addresses of the lower half, of the upper half and of neither.
- virtio: two slots and indices modulo 4, so that an index differs from its slot;
  workloads long enough to wrap the index.
- emunet: three processes with two crashes; three circuits per process; three
  leases and three external ports, so that both allocators run out.

### Fairness

- `MCSched!MCFairSpec`: infinitely often a slice ends, or infinitely often there
  is nobody else to run. The loops give each slice an instruction budget in
  every mode, so slices end.
- `Jea9Events!FairEventsSpec`: the same, needed only while a thread has news.
- `Jea9Sockets!FairSpec`: the emulator's loop goes on for that reason, and the
  host schedules the goroutines. Nothing is assumed of the guest's calls or of
  its peers.
- `MCBoard!MCFairSpec`: the hart's goroutine and a goroutine that is about to
  wake it are scheduled. Nothing is assumed of input.
- `VirtioNet!FairSpec`: the device finishes its loops, and the driver goes on
  posting buffers and serving interrupts. Without the latter no frame could be
  promised to arrive; `FramesArrive` speaks of workloads without resets.
- `Emunet!FairSpec`: watchdog and event reader of a running process get on.
  `FailoverCompletes` speaks of workloads in which crashes end and no circuit
  fails on its own.

`CHECK_DEADLOCK FALSE` is set where a behaviour may end: the process exits or
blocks, the clock bound is reached, or the workload is used up (`sched`,
`guest_events`, `sockets`, `virtio`, `emunet` and their violation runs).

## Findings

Four runs show the code departing from what it says of itself.

1. `sched_jit_exit`: `RunJIT` delivers the ecall note after its test for
   `jos.blocked`, so a blocked guest becomes an `ExitError`.
2. `board_console`: the reader of the console socket fills the UART channel
   without `markExternalInterruptDirty`, so the hart keeps using a cached "no
   interrupt" until something else marks it.
3. `exec_split`: `RemoveExecRegion` appends two pieces to a slice it is still
   ranging over and overwrites the next region before reading it.
4. `emunet_close`: `promoteToLeader` does not look at its context, so a `Close`
   during a promotion leaves a closed stack that owns the socket and leads.

Behaviour met while modelling that has no run. The models contain what is marked
(m) as the code does it; the rest is outside them.

- Scheduler: a timed futex, epoll or pselect wait jumps the clock past earlier
  deadlines, which is why `ClockStopsAtDeadlines` is about sleeps (m). In chaos
  mode `Run` may report an exit when every runnable context is starved,
  "blocked" is reported after a single advance, and a starved context already
  loaded goes on executing (m).
- Descriptors: reads that make room, `epoll_ctl` and `close` wake nobody until
  the slice ends; a waiter on a closed epoll descriptor then gets EBADF (m).
  `RunJIT` may end a slice right after a handled ecall without looking. Several
  waiters are looked at in the order of a Go map (m). A fault while
  `epollCollectReady` stores events loses the edges stored so far. `dup3` copies
  an eventfd's counter and a socket's buffers by value: the copy of a socket
  never gets a reader, and closing either closes the connection of both.
- Sockets: when `AcceptTCP` fails for want of host descriptors its goroutine ends
  and the listener stays deaf. A read into an unmapped buffer loses its bytes.
- Signals: an interrupted sleep resumes with a0 unchanged, not -EINTR (compare
  `plans/os_impl_arch.md:427`). Nested `SA_ONSTACK` handlers that do not block each
  other overwrite the outer frame, whose handler then resumes other code (m; the
  proviso of `ReturnsToInterrupted`). A signal that was pending is lost when its
  frame cannot be written, and without a page for the restorer a frame stays
  behind whose handler never ran (m).
  `rt_sigreturn` delivers none of the signals it unblocks and `rt_sigprocmask`
  only one (m).
- Board: a second PLIC claim forgets the first, and the divisor latch shares its
  byte with the interrupt enables (m).
- emunet: the late error of an old circuit removes the port of a follower that
  has reconnected, and a frame read after the error creates it again (m). After
  a failover leases are handed out in the order of first frames (m). With every
  external port in use the search for one never ends (m).

## Proofs

All theorems hold for every value of the constants their modules' assumptions
allow: any number of threads, addresses, clock policy, mode, engine; any buffer
limit, injectors and guest; any ring size that divides the range of the indices
(the device takes any, drivers choose a power of two); any size of guest memory
and any ranges and protections; page tables of any depth and width and TLBs of
any size; any number of processes, ports, leases and idle times.

- `TypeCorrect`, `FutexQueuesAlwaysExact`, `TimedCountersAlwaysExact`. The
  inductive invariant is `KernelInv`: types, queues exact, counters exact, and
  `WaitFieldsExact` (who is not waiting has no kind, address or deadline). Each
  alone is not inductive: waking a context decrements the counter its kind and
  deadline select and leaves the queue its address selects. `Jea9SchedProofs`
  first shows that every kernel operator keeps `KernelInv`. Most of them only wake:
  `Wakes(j, l)` says that `l` is `j` with some waiters made runnable. It is
  transitive, so compositions need no new case analysis. The second half of the
  module has one step per action.
- `AlwaysExecutesRunnable`: whenever the run goes on, the current context is
  runnable.
- `NeverOverdue`, `ChaosAlwaysWithinBudget`, and the action properties
  `NeverEarlyTimeout` and `AlwaysInArrivalOrder` (`Jea9TimeProofs`). Beside the
  invariant above, `TimeInv` says that no wait is overdue in a state where guest
  code runs, and of a starvation window that is not open that it has no length:
  otherwise the next one would be charged for it. For each kernel operator the
  module shows which waits it may end and how (`Ends`), and that it takes waiters
  of an address from the front of their queue; the actions compose these.
- `AlwaysMappedContents`, `AlwaysRegionsOnlyExec` (`GuestVMProofs`). What a
  readable page shows is not inductive: `Contents` adds that a page whose
  zeroing was put off has no access rights, still owes zero, and nobody wrote it.
  The region table is edited in the slice being read; the lemmas `RemoveLoop` and
  `AddLoop` follow the array through the loop and show that after any number of
  turns the elements written lie inside regions of the old table (`RemoveFacts`,
  `AddFacts`). This holds although the loop may lose regions (`exec_split`).
- `AlwaysTransparent`, `AlwaysSinceFence`, `AlwaysMarked` (`HartMMUProofs`). The
  invariant says of every valid TLB entry that, while no table entry was written
  since the last flush, it is what the tables give for every page it spans and that its
  leaf is marked (`FaithfulTLB`), and that the tables gave it at some time since
  the flush (`RecentTLB`). It rests on `SameTranslation`: two addresses in
  the span of one leaf take the same path through the tables, of any depth. That
  needs arithmetic of the radix tree (`SameAbove`, `SameIndices`): addresses that
  agree after division by the span of a level agree at every higher level.
- `BoardTypeCorrect`, from `Types`, the type invariant with its control part.
- `CacheAlwaysExact`: without a console socket, a clean flag means the cached
  answer is the right one. The invariant adds `Collected`, which says of an
  evaluation in progress that, while the flag is still clear, what it has
  collected is what the devices it has passed show. The premise is needed: see
  `board_console`.
- `SleeperAlwaysWoken`: under the same premise the hart of a machine with
  virtio-net never sleeps through an interrupt (`SleeperIsWoken`, which
  `NeverSleepsThroughInterrupt` checks). The flag does not help here, as a drain
  may have set it. The invariant says that while there is no token in `wfiWake`
  and nobody is about to put one there (`Calm`), the hart went to sleep with the
  right answer (`Dozing`), and the refresh before the sleep collects the right
  lines (`CalmCollected`).
- `BytesAlwaysInOrder` needs no premise. `BytesInv` counts the bytes in `rx` and
  `rxCh` from the last one the guest took to the last one typed, and adds that a
  port whose channel is gone gets no more input (`Silent`).
- `AlwaysOneOwner` (`VirtioNetProofs`). For a queue in use let the *window* be the
  entries from the index the driver has seen to the one it is writing: the first
  ones are in the used ring, the others in the available ring (`Entry`). The
  invariant `OwnerInv` says that the device has returned exactly what it consumed,
  and that the window holds every descriptor that is not free, once
  (`Partition`). Posting, publishing, consuming and reaping move its ends and
  leave what it holds alone. The window is never longer than the ring, so what
  the device writes to the used ring overwrites nothing the driver has not seen;
  that indices wrap modulo a multiple of the ring size is used in `SlotOf` and
  `SlotsDiffer`.
- `ReceiveAlwaysSignalled`, from `SignalInv`: an injection under way that has
  delivered something remembers so, and will raise the interrupt.
- `DeviceKeepsOrder` (`VirtioOrderProofs`): `KeepsOrder`, a refinement. The
  abstract queues are parts of the window (`RxQueue`, `TxQueue`): frames in
  entries the driver has not seen followed by the pending ones, and frames in
  entries the device has not consumed. `FifoStep` is a step of `FrameFIFO` or none:
  `Moves` while the queue stays as it is, where nothing may be lost, and `Turns`
  when it is opened, closed or reset; `RxStep` and `TxStep` show it for each action. `pumpRXLocked` only moves frames
  from one half of the receive queue to the other, because distinct entries
  have distinct buffers (`FillKeepsOrder`); a post overwrites no buffer of
  the window, its descriptor being free. `WaitsMore` and `WaitsLess` follow the
  loop of `drainTXLocked`: its result on all chains is what it gathers from the
  first ones, then from the others (`FramesSplit`).
- `LeaderAlwaysOwnsRendezvous` (`EmunetProofs`), from `ElectionInv`: a promotion
  owns the socket from the moment it is bound, serves before it publishes, and a
  leader has left its watchdog. It uses no assumption on failures or on `Close`.
- `GoodCircuitAlwaysKept`, an action property, from `CircuitInv`: an error that
  waits belongs to a circuit that no longer works and whose number is not used
  again, and a watchdog that is about to replace a circuit replaces it by one to
  another leader.
- `NATTablesAlwaysAgree`, `LeasesAlwaysDistinct`, `SpinsAlwaysForWantOfPorts`,
  from `CoreInv`. Lemmas without state first show that each operator of the switch
  keeps a core in order (`CoreOK`). Agreement of the maps is strengthened by
  `NATMaps`: the key of an entry is the one its flow and external port make;
  otherwise dropping a flow could leave a key behind that names it. Distinct
  leases follow from `LeasesOK`,
  which counts what was given out: until all were, ports hold leases below the
  one whose turn it is.

The loops of the code are recursive functions (`Path`, `SpanOf`, the loops of
the region table, `FramesOf`). The provers have no induction over data; where a
fact about such a function is needed, a lemma takes the least number at which it
fails (`LeastNumber`, `UpTo`, `DownTo`), first to show that the function exists,
then for what it returns.

Only model-checked: liveness, which is out of the prover's reach; the verdicts
of the scheduler (`VerdictsOfRun`) and where its clock stops
(`ClockStopsAtDeadlines`); `TypeOK` and `FlowKept` of `Emunet`; and all of
`Jea9Events` and `Jea9Sockets`, except that `ImplementsScheduler` carries the
scheduler's theorems to the instance of `Jea9Events` that is checked.

## Not modelled, and plan

Components with status `not_modelled` in `PROJECT.json` give their reasons.
The definitions of the models stand for about 5,300 lines of Go, almost half of
them in `jea9linux.go`, the rest in the board, the MMU, sockets and the network:
the parts where order matters. Instruction semantics, decoders, code generation
and host file access are sequential and better served by the repository's
differential tests. In this order, the plan adds:

1. the CLINT timer and machine-mode interrupts in `BoardIRQ`;
2. JIT block and segment caches with what invalidates them, and machine clones;
3. `dup3` in `Jea9FDs` and `Jea9Sockets`, where generations begin to matter;
4. a width-accurate module of time conversions (`timespec` to nanoseconds);
5. proofs: `ImplementsScheduler` for `Jea9Events`, `FlowKept` for `Emunet`, and
   the streams of `Jea9Sockets`.

## Running

`tlc -config MCSched.cfg MCSched` checks one run; `PROJECT.json` lists module
and configuration of each. `tlapm Jea9SchedProofs.tla` checks proofs.
